---- MODULE Spec2Model ----
(***************************************************************************)
(* Strategy Synergy Engine of DeckAnalyzer (src/synergy.py).               *)
(*                                                                         *)
(* One run of evaluate_synergy is modelled as a sequential pipeline: the   *)
(* inputs (card list, quantity map, optional package catalog) are drawn in *)
(* Init and each numbered step of evaluate_synergy is one action.          *)
(*                                                                         *)
(* Numbers: Python floats are modelled as exact rationals <<n, d>> with    *)
(* d > 0 in lowest terms, so floating-point rounding is abstracted away.   *)
(* Oracle text: a text is represented by what the extractor can observe of *)
(* it, the set of SIGNAL_PATTERNS entries <<tag, i>> that re.search finds  *)
(* in the lower-cased text and the set of literal phrases it contains.     *)
(* The evidence strings of signals and the wording of warnings are left    *)
(* out; a warning keeps its kind and the names it is formatted from.       *)
(***************************************************************************)
EXTENDS Integers, Sequences, FiniteSets, TLC

\* ---------------------------------------------------------------- bounds
\* Longest card list drawn in Init.
MaxDeck ==
  2

\* Largest quantity a quantity-map entry holds.
MaxQty ==
  4

\* ------------------------------------------------------- exact arithmetic
Abs(x) ==
  IF x < 0 THEN -x ELSE x

RECURSIVE GCD(_, _)
GCD(a, b) ==
  IF b = 0 THEN a ELSE GCD(b, a % b)

\* The rational n/d (d > 0) in lowest terms.
Norm(n, d) ==
  LET g == GCD(Abs(n), d)
  IN  IF g = 0 THEN <<0, 1>> ELSE <<n \div g, d \div g>>

RInt(n) ==
  <<n, 1>>

RAdd(a, b) ==
  Norm(a[1] * b[2] + b[1] * a[2], a[2] * b[2])

RMul(a, b) ==
  Norm(a[1] * b[1], a[2] * b[2])

\* a / b for b # 0
RDiv(a, b) ==
  IF b[1] > 0 THEN Norm(a[1] * b[2], a[2] * b[1])
              ELSE Norm(-(a[1] * b[2]), a[2] * (-b[1]))

RLt(a, b) ==
  a[1] * b[2] < b[1] * a[2]

RLe(a, b) ==
  a[1] * b[2] <= b[1] * a[2]

RMin(a, b) ==
  IF RLe(a, b) THEN a ELSE b

\* int(x): truncation toward zero
RTrunc(a) ==
  IF a[1] >= 0 THEN a[1] \div a[2] ELSE -((-a[1]) \div a[2])

\* dict.get(key, default)
Get(d, key, default) ==
  IF key \in DOMAIN d THEN d[key] ELSE default

\* All iteration orders of a Python set.
Orderings(S) ==
  {f \in [1..Cardinality(S) -> S] : \A i, j \in 1..Cardinality(S) : f[i] = f[j] => i = j}

\* ------------------------------------------------------ package catalog
\* The built-in catalog (description and max_score are not used by the engine).
get_default_packages ==
  <<
   [name |-> "aristocrats", display_name |-> "Aristocrats",
    components |-> <<
       [name |-> "outlets", tags |-> <<"sac_outlet", "sac_outlet_free">>, min_required |-> 5,
        weight |-> <<3, 2>>, display_name |-> "Sacrifice Outlets"],
       [name |-> "payoffs", tags |-> <<"death_payoff", "dies_trigger", "blood_artist_effect">>, min_required |-> 6,
        weight |-> <<13, 10>>, display_name |-> "Death Payoffs"],
       [name |-> "fodder", tags |-> <<"token_producer", "cheap_creature", "recursive_creature">>, min_required |-> 10,
        weight |-> <<1, 1>>, display_name |-> "Sacrifice Fodder"]>>,
    synergy_pairs |-> <<<<"sac_outlet_free", "death_payoff">>>>,
    conflict_tags |-> {"exile_graveyard", "prevent_death_triggers"}],
   [name |-> "tokens", display_name |-> "Token Swarm",
    components |-> <<
       [name |-> "producers", tags |-> <<"token_producer", "token_doubler">>, min_required |-> 10,
        weight |-> <<13, 10>>, display_name |-> "Token Producers"],
       [name |-> "payoffs", tags |-> <<"token_payoff", "wide_payoff", "etb_payoff">>, min_required |-> 6,
        weight |-> <<3, 2>>, display_name |-> "Token Payoffs"],
       [name |-> "support", tags |-> <<"anthem", "pump_team">>, min_required |-> 4,
        weight |-> <<1, 1>>, display_name |-> "Team Buffs"]>>,
    synergy_pairs |-> <<<<"token_doubler", "token_producer">>>>,
    conflict_tags |-> {"boardwipe_nontoken", "massacre"}],
   [name |-> "spellslinger", display_name |-> "Spellslinger",
    components |-> <<
       [name |-> "spells", tags |-> <<"cheap_spell", "cantrip", "ritual">>, min_required |-> 15,
        weight |-> <<1, 1>>, display_name |-> "Cheap Spells"],
       [name |-> "triggers", tags |-> <<"spellslinger_trigger", "prowess", "magecraft">>, min_required |-> 6,
        weight |-> <<3, 2>>, display_name |-> "Spell Triggers"],
       [name |-> "payoffs", tags |-> <<"spell_payoff", "storm_payoff">>, min_required |-> 4,
        weight |-> <<13, 10>>, display_name |-> "Spell Payoffs"]>>,
    synergy_pairs |-> <<>>,
    conflict_tags |-> {"rule_of_law", "spell_tax_all"}],
   [name |-> "artifacts", display_name |-> "Artifacts Matter",
    components |-> <<
       [name |-> "artifacts", tags |-> <<"artifact_count", "artifact_creature">>, min_required |-> 15,
        weight |-> <<1, 1>>, display_name |-> "Artifact Density"],
       [name |-> "payoffs", tags |-> <<"artifact_payoff", "metalcraft">>, min_required |-> 6,
        weight |-> <<3, 2>>, display_name |-> "Artifact Payoffs"],
       [name |-> "engines", tags |-> <<"artifact_engine", "artifact_recursion">>, min_required |-> 4,
        weight |-> <<6, 5>>, display_name |-> "Artifact Engines"]>>,
    synergy_pairs |-> <<>>,
    conflict_tags |-> {"artifact_hate", "destroy_artifacts"}],
   [name |-> "enchantress", display_name |-> "Enchantress",
    components |-> <<
       [name |-> "enchantments", tags |-> <<"enchantment_count">>, min_required |-> 15,
        weight |-> <<1, 1>>, display_name |-> "Enchantment Density"],
       [name |-> "draw", tags |-> <<"enchantress_draw">>, min_required |-> 4,
        weight |-> <<2, 1>>, display_name |-> "Enchantress Effects"],
       [name |-> "payoffs", tags |-> <<"enchantment_payoff">>, min_required |-> 4,
        weight |-> <<13, 10>>, display_name |-> "Enchantment Payoffs"]>>,
    synergy_pairs |-> <<>>,
    conflict_tags |-> {}],
   [name |-> "reanimator", display_name |-> "Reanimator",
    components |-> <<
       [name |-> "fillers", tags |-> <<"yard_filler", "self_mill", "discard_outlet">>, min_required |-> 6,
        weight |-> <<6, 5>>, display_name |-> "Graveyard Fillers"],
       [name |-> "reanimation", tags |-> <<"reanimate_spell", "recursion">>, min_required |-> 6,
        weight |-> <<3, 2>>, display_name |-> "Reanimation Spells"],
       [name |-> "targets", tags |-> <<"reanimate_target", "etb_bomb">>, min_required |-> 6,
        weight |-> <<6, 5>>, display_name |-> "Reanimation Targets"]>>,
    synergy_pairs |-> <<>>,
    conflict_tags |-> {"exile_graveyard", "graveyard_hate"}],
   [name |-> "counters", display_name |-> "+1/+1 Counters",
    components |-> <<
       [name |-> "sources", tags |-> <<"counter_source", "counter_when_etb">>, min_required |-> 10,
        weight |-> <<6, 5>>, display_name |-> "Counter Sources"],
       [name |-> "payoffs", tags |-> <<"counter_payoff", "counter_matters">>, min_required |-> 6,
        weight |-> <<3, 2>>, display_name |-> "Counter Payoffs"],
       [name |-> "support", tags |-> <<"proliferate", "counter_doubler">>, min_required |-> 3,
        weight |-> <<13, 10>>, display_name |-> "Counter Support"]>>,
    synergy_pairs |-> <<>>,
    conflict_tags |-> {}],
   [name |-> "voltron", display_name |-> "Voltron",
    components |-> <<
       [name |-> "buffs", tags |-> <<"equipment", "aura_buff", "pump_single">>, min_required |-> 10,
        weight |-> <<3, 2>>, display_name |-> "Buffs & Equipment"],
       [name |-> "protection", tags |-> <<"protection", "hexproof", "indestructible">>, min_required |-> 6,
        weight |-> <<13, 10>>, display_name |-> "Protection"],
       [name |-> "support", tags |-> <<"evasion", "double_strike">>, min_required |-> 4,
        weight |-> <<1, 1>>, display_name |-> "Evasion & Keywords"]>>,
    synergy_pairs |-> <<>>,
    conflict_tags |-> {"boardwipe", "sacrifice_creature"}],
   [name |-> "landfall", display_name |-> "Landfall",
    components |-> <<
       [name |-> "triggers", tags |-> <<"landfall", "land_etb_trigger">>, min_required |-> 8,
        weight |-> <<3, 2>>, display_name |-> "Landfall Triggers"],
       [name |-> "ramp", tags |-> <<"land_ramp", "fetch_land", "land_recursion">>, min_required |-> 12,
        weight |-> <<6, 5>>, display_name |-> "Land Ramp"],
       [name |-> "payoffs", tags |-> <<"landfall_payoff", "land_count_matters">>, min_required |-> 4,
        weight |-> <<13, 10>>, display_name |-> "Landfall Payoffs"]>>,
    synergy_pairs |-> <<>>,
    conflict_tags |-> {}],
   [name |-> "group_slug", display_name |-> "Group Slug",
    components |-> <<
       [name |-> "damage", tags |-> <<"group_slug", "damage_all", "drain">>, min_required |-> 10,
        weight |-> <<3, 2>>, display_name |-> "Group Damage"],
       [name |-> "protection", tags |-> <<"lifegain", "damage_prevention">>, min_required |-> 6,
        weight |-> <<6, 5>>, display_name |-> "Life Protection"]>>,
    synergy_pairs |-> <<>>,
    conflict_tags |-> {}],
   [name |-> "storm", display_name |-> "Storm/Combo",
    components |-> <<
       [name |-> "enablers", tags |-> <<"ritual", "cost_reducer", "free_spell">>, min_required |-> 10,
        weight |-> <<3, 2>>, display_name |-> "Enablers"],
       [name |-> "draw", tags |-> <<"cantrip", "wheel", "draw_engine">>, min_required |-> 12,
        weight |-> <<13, 10>>, display_name |-> "Card Draw"],
       [name |-> "payoffs", tags |-> <<"storm_payoff", "combo_piece", "wincon">>, min_required |-> 4,
        weight |-> <<3, 2>>, display_name |-> "Win Conditions"]>>,
    synergy_pairs |-> <<>>,
    conflict_tags |-> {}]
  >>

\* A catalog a caller passes in place of the built-in one: small thresholds,
\* two packages with identical components, a component without a minimum.
TestCatalog ==
  <<
   [name |-> "sac", display_name |-> "Sacrifice",
    components |-> <<
       [name |-> "outlets", tags |-> <<"sac_outlet">>, min_required |-> 10,
        weight |-> <<1, 1>>, display_name |-> "Outlets"]>>,
    synergy_pairs |-> <<>>,
    conflict_tags |-> {"boardwipe", "exile_graveyard"}],
   [name |-> "sac_twin", display_name |-> "Sacrifice Twin",
    components |-> <<
       [name |-> "outlets", tags |-> <<"sac_outlet">>, min_required |-> 10,
        weight |-> <<1, 1>>, display_name |-> "Outlets"]>>,
    synergy_pairs |-> <<>>,
    conflict_tags |-> {}],
   [name |-> "tokens", display_name |-> "Token Swarm",
    components |-> <<
       [name |-> "producers", tags |-> <<"token_producer">>, min_required |-> 4,
        weight |-> <<1, 1>>, display_name |-> "Token Producers"],
       [name |-> "fliers", tags |-> <<"evasion">>, min_required |-> 2,
        weight |-> <<1, 1>>, display_name |-> "Fliers"]>>,
    synergy_pairs |-> <<>>,
    conflict_tags |-> {"exile_graveyard"}],
   [name |-> "metal", display_name |-> "Metal",
    components |-> <<
       [name |-> "artifacts", tags |-> <<"artifact_count", "artifact_creature">>, min_required |-> 8,
        weight |-> <<3, 2>>, display_name |-> "Artifacts"],
       [name |-> "gear", tags |-> <<"equipment">>, min_required |-> 0,
        weight |-> <<1, 2>>, display_name |-> "Gear"]>>,
    synergy_pairs |-> <<>>,
    conflict_tags |-> {}],
   [name |-> "weenie", display_name |-> "Weenie",
    components |-> <<
       [name |-> "creatures", tags |-> <<"cheap_creature">>, min_required |-> 4,
        weight |-> <<1, 1>>, display_name |-> "Cheap Creatures"]>>,
    synergy_pairs |-> <<>>,
    conflict_tags |-> {}]
  >>

\* --------------------------------------------------- signal extraction
\* Pattern groups in table order; each entry keeps the strength of its
\* regular expressions, which are identified by their position.
\* A catalog a caller can hand to evaluate_synergy whose only component has
\* a negative min_required.
MalformedCatalog ==
  <<
   [name |-> "broken", display_name |-> "Broken",
    components |-> <<
       [name |-> "negative", tags |-> <<"cheap_creature">>, min_required |-> -1,
        weight |-> <<1, 1>>, display_name |-> "Negative Minimum"]>>,
    synergy_pairs |-> <<>>,
    conflict_tags |-> {}]
  >>

SIGNAL_PATTERNS ==
  <<
   [tag |-> "sac_outlet", strengths |-> <<<<1, 1>>, <<1, 1>>>>],
   [tag |-> "sac_outlet_free", strengths |-> <<<<3, 2>>>>],
   [tag |-> "death_payoff", strengths |-> <<<<3, 2>>, <<1, 1>>>>],
   [tag |-> "dies_trigger", strengths |-> <<<<1, 1>>, <<1, 1>>>>],
   [tag |-> "blood_artist_effect", strengths |-> <<<<2, 1>>, <<3, 2>>>>],
   [tag |-> "token_producer", strengths |-> <<<<1, 1>>, <<1, 1>>>>],
   [tag |-> "token_doubler", strengths |-> <<<<5, 2>>, <<5, 2>>>>],
   [tag |-> "token_payoff", strengths |-> <<<<3, 2>>, <<3, 2>>>>],
   [tag |-> "wide_payoff", strengths |-> <<<<3, 2>>, <<13, 10>>, <<3, 2>>>>],
   [tag |-> "etb_payoff", strengths |-> <<<<3, 2>>>>],
   [tag |-> "anthem", strengths |-> <<<<3, 2>>, <<13, 10>>>>],
   [tag |-> "cheap_spell", strengths |-> <<>>],
   [tag |-> "cantrip", strengths |-> <<<<1, 1>>>>],
   [tag |-> "spellslinger_trigger", strengths |-> <<<<2, 1>>, <<3, 2>>>>],
   [tag |-> "prowess", strengths |-> <<<<3, 2>>>>],
   [tag |-> "magecraft", strengths |-> <<<<2, 1>>>>],
   [tag |-> "spell_payoff", strengths |-> <<<<3, 2>>, <<13, 10>>>>],
   [tag |-> "storm_payoff", strengths |-> <<<<3, 1>>, <<2, 1>>>>],
   [tag |-> "artifact_count", strengths |-> <<>>],
   [tag |-> "artifact_creature", strengths |-> <<>>],
   [tag |-> "artifact_payoff", strengths |-> <<<<3, 2>>, <<3, 2>>>>],
   [tag |-> "metalcraft", strengths |-> <<<<2, 1>>, <<3, 2>>>>],
   [tag |-> "artifact_engine", strengths |-> <<<<3, 2>>>>],
   [tag |-> "artifact_recursion", strengths |-> <<<<3, 2>>>>],
   [tag |-> "enchantment_count", strengths |-> <<>>],
   [tag |-> "enchantress_draw", strengths |-> <<<<3, 1>>, <<3, 1>>>>],
   [tag |-> "enchantment_payoff", strengths |-> <<<<3, 2>>, <<3, 2>>>>],
   [tag |-> "yard_filler", strengths |-> <<<<1, 1>>, <<1, 1>>>>],
   [tag |-> "self_mill", strengths |-> <<<<1, 1>>, <<1, 1>>>>],
   [tag |-> "discard_outlet", strengths |-> <<<<1, 1>>>>],
   [tag |-> "reanimate_spell", strengths |-> <<<<2, 1>>, <<2, 1>>>>],
   [tag |-> "reanimate_target", strengths |-> <<>>],
   [tag |-> "etb_bomb", strengths |-> <<>>],
   [tag |-> "counter_source", strengths |-> <<<<1, 1>>>>],
   [tag |-> "counter_when_etb", strengths |-> <<<<3, 2>>>>],
   [tag |-> "counter_payoff", strengths |-> <<<<3, 2>>, <<13, 10>>>>],
   [tag |-> "counter_matters", strengths |-> <<<<3, 2>>>>],
   [tag |-> "proliferate", strengths |-> <<<<2, 1>>>>],
   [tag |-> "counter_doubler", strengths |-> <<<<5, 2>>, <<2, 1>>>>],
   [tag |-> "equipment", strengths |-> <<>>],
   [tag |-> "aura_buff", strengths |-> <<>>],
   [tag |-> "pump_single", strengths |-> <<<<1, 1>>>>],
   [tag |-> "evasion", strengths |-> <<<<3, 2>>, <<3, 2>>, <<1, 1>>>>],
   [tag |-> "double_strike", strengths |-> <<<<2, 1>>>>],
   [tag |-> "landfall", strengths |-> <<<<2, 1>>>>],
   [tag |-> "land_etb_trigger", strengths |-> <<<<2, 1>>>>],
   [tag |-> "land_ramp", strengths |-> <<<<1, 1>>>>],
   [tag |-> "fetch_land", strengths |-> <<<<3, 2>>>>],
   [tag |-> "land_recursion", strengths |-> <<<<3, 2>>>>],
   [tag |-> "landfall_payoff", strengths |-> <<<<3, 2>>>>],
   [tag |-> "land_count_matters", strengths |-> <<<<3, 2>>>>],
   [tag |-> "group_slug", strengths |-> <<<<3, 2>>, <<3, 2>>>>],
   [tag |-> "damage_all", strengths |-> <<<<3, 2>>>>],
   [tag |-> "drain", strengths |-> <<<<2, 1>>>>],
   [tag |-> "lifegain", strengths |-> <<<<1, 1>>>>],
   [tag |-> "ritual", strengths |-> <<<<3, 2>>, <<3, 2>>>>],
   [tag |-> "cost_reducer", strengths |-> <<<<3, 2>>>>],
   [tag |-> "free_spell", strengths |-> <<<<2, 1>>>>],
   [tag |-> "wheel", strengths |-> <<<<5, 2>>>>],
   [tag |-> "draw_engine", strengths |-> <<<<2, 1>>>>],
   [tag |-> "combo_piece", strengths |-> <<<<3, 1>>, <<3, 2>>>>],
   [tag |-> "wincon", strengths |-> <<<<3, 1>>, <<5, 2>>>>],
   [tag |-> "boardwipe", strengths |-> <<<<1, 1>>, <<1, 1>>>>],
   [tag |-> "exile_graveyard", strengths |-> <<<<2, 1>>, <<3, 2>>>>],
   [tag |-> "rule_of_law", strengths |-> <<<<3, 1>>>>]
  >>

\* The cards a deck is drawn from.  type_line holds the structural words the
\* type line contains; oracle_text holds the observations of the lower-cased
\* text (see the module comment), computed with the source's expressions.
CardPool ==
  <<
   \* Viscera Seer | Creature - Vampire Wizard | CMC 1
   \* "Sacrifice a creature: Scry 1."
   [name |-> "Viscera Seer", type_line |-> {"Creature"}, cmc |-> 1,
    keywords |-> {},
    oracle_text |-> [contains |-> {},
                    matches |-> {<<"sac_outlet", 1>>, <<"sac_outlet", 2>>, <<"sac_outlet_free", 1>>}]],
   \* Doomed Traveler | Creature - Human Soldier | CMC 1
   \* "When Doomed Traveler dies, create a 1/1 white Spirit creature token with flying."
   [name |-> "Doomed Traveler", type_line |-> {"Creature"}, cmc |-> 1,
    keywords |-> {},
    oracle_text |-> [contains |-> {},
                    matches |-> {<<"death_payoff", 2>>, <<"dies_trigger", 1>>, <<"token_producer", 1>>, <<"evasion", 3>>}]],
   \* Swiftblade Angel | Creature - Angel | CMC 4
   \* "Flying, hexproof. Swiftblade Angel can't be blocked by creatures with
   \*  power 2 or less."
   [name |-> "Swiftblade Angel", type_line |-> {"Creature"}, cmc |-> 4,
    keywords |-> {"Flying", "Hexproof"},
    oracle_text |-> [contains |-> {},
                    matches |-> {<<"evasion", 1>>, <<"evasion", 3>>}]],
   \* Disk of Ruin | Artifact | CMC 4
   \* "{1}, {T}: Destroy all creatures. Exile all cards from all graveyards."
   [name |-> "Disk of Ruin", type_line |-> {"Artifact"}, cmc |-> 4,
    keywords |-> {"Shroud"},
    oracle_text |-> [contains |-> {},
                    matches |-> {<<"boardwipe", 1>>, <<"exile_graveyard", 1>>}]],
   \* Colossus of Eons | Artifact Creature - Equipment Golem | CMC 6000
   \* ""
   [name |-> "Colossus of Eons", type_line |-> {"Artifact", "Creature", "Equipment"}, cmc |-> 6000,
    keywords |-> {"Double strike"},
    oracle_text |-> [contains |-> {},
                    matches |-> {}]],
   \* Bonesplitter | Artifact - Equipment | CMC 1
   \* "Equipped creature gets +2/+0. Equip {1}"
   [name |-> "Bonesplitter", type_line |-> {"Artifact", "Equipment"}, cmc |-> 1,
    keywords |-> {"Equip"},
    oracle_text |-> [contains |-> {"gets +"},
                    matches |-> {}]],
   \* Misprinted Proxy | type_line None | CMC 0
   \* ""
   [name |-> "Misprinted Proxy", type_line |-> {"<None>"}, cmc |-> 0,
    keywords |-> {},
    oracle_text |-> [contains |-> {},
                    matches |-> {}]]
  >>

Signal(tag, strength, source) ==
  [tag |-> tag, strength |-> strength, source |-> source]

\* str.lower() on the keyword strings of the card pool
Lower(keyword) ==
  CASE keyword = "Flying" -> "flying"
    [] keyword = "Hexproof" -> "hexproof"
    [] keyword = "Shroud" -> "shroud"
    [] keyword = "Double strike" -> "double strike"
    [] keyword = "Equip" -> "equip"
    [] OTHER -> keyword

\* Variant of ContainsAny: the phrase list holds an empty phrase, which is a
\* substring of every text.
ContainsAny_EmptyPhrase(text, phrases) ==
  TRUE

\* any(p in text_lower for p in phrases)
ContainsAny(text, phrases) ==
  text.contains \cap phrases # {}

\* Variant of FirstMatch: the loop over the group has no break, every
\* matching pattern of the group emits a signal.
RECURSIVE FirstMatch_NoBreak(_, _, _)
FirstMatch_NoBreak(group, text, i) ==
  IF i > Len(group.strengths) THEN <<>>
  ELSE (IF <<group.tag, i>> \in text.matches
        THEN <<Signal(group.tag, group.strengths[i], "oracle")>>
        ELSE <<>>)
       \o FirstMatch_NoBreak(group, text, i + 1)

\* The inner loop over one pattern group: the first matching entry, then break.
RECURSIVE FirstMatch(_, _, _)
FirstMatch(group, text, i) ==
  IF i > Len(group.strengths) THEN <<>>
  ELSE IF <<group.tag, i>> \in text.matches
       THEN <<Signal(group.tag, group.strengths[i], "oracle")>>
       ELSE FirstMatch(group, text, i + 1)

RECURSIVE PatternSignals(_, _)
PatternSignals(text, g) ==
  IF g > Len(SIGNAL_PATTERNS) THEN <<>>
  ELSE FirstMatch(SIGNAL_PATTERNS[g], text, 1) \o PatternSignals(text, g + 1)

\* Variant of KeywordSignals: the keyword is compared as it is written, not
\* lower-cased.
RECURSIVE KeywordSignals_CaseSensitive(_, _)
KeywordSignals_CaseSensitive(kw_order, i) ==
  IF i > Len(kw_order) THEN <<>>
  ELSE LET here == IF kw_order[i] = "flying"
                     THEN <<Signal("evasion", <<1, 1>>, "keywords")>>
                   ELSE IF kw_order[i] = "double strike"
                     THEN <<Signal("double_strike", <<2, 1>>, "keywords")>>
                   ELSE IF kw_order[i] \in {"hexproof", "shroud"}
                     THEN <<Signal("hexproof", <<3, 2>>, "keywords")>>
                   ELSE <<>>
       IN  here \o KeywordSignals_CaseSensitive(kw_order, i + 1)

RECURSIVE KeywordSignals(_, _)
KeywordSignals(kw_order, i) ==
  IF i > Len(kw_order) THEN <<>>
  ELSE LET keyword_lower == Lower(kw_order[i])
           here == IF keyword_lower = "flying"
                     THEN <<Signal("evasion", <<1, 1>>, "keywords")>>
                   ELSE IF keyword_lower = "double strike"
                     THEN <<Signal("double_strike", <<2, 1>>, "keywords")>>
                   ELSE IF keyword_lower \in {"hexproof", "shroud"}
                     THEN <<Signal("hexproof", <<3, 2>>, "keywords")>>
                   ELSE <<>>
       IN  here \o KeywordSignals(kw_order, i + 1)

\* The substring tests on type_line raise TypeError when the record's
\* type_line is None (written as the word <None> in the card pool).
Raises(card) ==
  "<None>" \in card.type_line

\* The type-line test for artifacts that are not creatures.
ArtifactSignals(type_line) ==
  IF "Artifact" \in type_line /\ "Creature" \notin type_line
  THEN <<Signal("artifact_count", <<1, 1>>, "type_line")>>
       \o (IF "Equipment" \in type_line
           THEN <<Signal("equipment", <<3, 2>>, "type_line")>>
           ELSE <<>>)
  ELSE <<>>

\* Variant of ArtifactCreatureSignals: an artifact creature counts in full.
ArtifactCreatureSignals_FullCount(type_line) ==
  IF "Artifact" \in type_line /\ "Creature" \in type_line
  THEN <<Signal("artifact_creature", <<1, 1>>, "type_line"),
         Signal("artifact_count", <<1, 1>>, "type_line")>>
  ELSE <<>>

\* The type-line test for artifact creatures.
ArtifactCreatureSignals(type_line) ==
  IF "Artifact" \in type_line /\ "Creature" \in type_line
  THEN <<Signal("artifact_creature", <<1, 1>>, "type_line"),
         Signal("artifact_count", <<1, 2>>, "type_line")>>
  ELSE <<>>

\* The signals of one card; kw_order is the order in which the keyword set
\* is iterated.
extract_synergy_signals(card, kw_order) ==
  LET type_line == card.type_line
      text == card.oracle_text
      cmc == card.cmc
      artifact == ArtifactSignals(type_line)
      artifact_creature == ArtifactCreatureSignals(type_line)
      enchantment ==
        IF "Enchantment" \in type_line
        THEN <<Signal("enchantment_count", <<1, 1>>, "type_line")>>
             \o (IF "Aura" \in type_line
                    /\ ContainsAny(text, {"enchanted creature gets", "gets +"})
                 THEN <<Signal("aura_buff", <<1, 1>>, "type_line")>>
                 ELSE <<>>)
        ELSE <<>>
      cheap_spell ==
        IF ("Instant" \in type_line \/ "Sorcery" \in type_line) /\ cmc <= 2
        THEN <<Signal("cheap_spell", IF cmc <= 1 THEN <<3, 2>> ELSE <<1, 1>>, "cmc")>>
        ELSE <<>>
      reanimate_target ==
        IF "Creature" \in type_line /\ cmc >= 6
        THEN <<Signal("reanimate_target", RDiv(RInt(cmc), RInt(6)), "cmc")>>
             \o (IF "enters the battlefield" \in text.contains
                 THEN <<Signal("etb_bomb", <<3, 2>>, "oracle")>>
                 ELSE <<>>)
        ELSE <<>>
      cheap_creature ==
        IF "Creature" \in type_line /\ cmc <= 3
        THEN <<Signal("cheap_creature", <<1, 1>>, "cmc")>>
        ELSE <<>>
      recursive_creature ==
        IF "Creature" \in type_line
           /\ ContainsAny(text, {"return", "from your graveyard", "unearth", "persist"})
        THEN <<Signal("recursive_creature", <<3, 2>>, "oracle")>>
        ELSE <<>>
  IN  artifact \o artifact_creature \o enchantment \o cheap_spell
      \o reanimate_target \o cheap_creature \o recursive_creature
      \o PatternSignals(text, 1) \o KeywordSignals(kw_order, 1)

\* The possible results of build_deck_signal_index on cards[1..i]: one entry
\* per card in list order (names are distinct), for every iteration order of
\* each card's keyword set.
RECURSIVE IndexUpTo(_, _)
IndexUpTo(cards, i) ==
  IF i = 0 THEN {<<>>}
  ELSE {Append(index, [card_name |-> cards[i].name,
                        signals |-> extract_synergy_signals(cards[i], kw_order)]) :
          index \in IndexUpTo(cards, i - 1),
          kw_order \in Orderings(cards[i].keywords)}

build_deck_signal_index(cards) ==
  IndexUpTo(cards, Len(cards))

\* tag_totals[tag] += amount on a defaultdict(float)
AddTo(tag_totals, tag, amount) ==
  IF tag \in DOMAIN tag_totals
  THEN [tag_totals EXCEPT ![tag] = RAdd(@, amount)]
  ELSE tag_totals @@ (tag :> RAdd(<<0, 1>>, amount))

\* Variant of AddSignals: the card's quantity is ignored.
RECURSIVE AddSignals_NoQty(_, _, _, _)
AddSignals_NoQty(tag_totals, signals, qty, i) ==
  IF i > Len(signals) THEN tag_totals
  ELSE AddSignals_NoQty(AddTo(tag_totals, signals[i].tag, signals[i].strength),
                        signals, qty, i + 1)

RECURSIVE AddSignals(_, _, _, _)
AddSignals(tag_totals, signals, qty, i) ==
  IF i > Len(signals) THEN tag_totals
  ELSE AddSignals(AddTo(tag_totals, signals[i].tag,
                        RMul(signals[i].strength, RInt(qty))),
                  signals, qty, i + 1)

\* Variant of AggregateFrom: a card's amounts replace the totals of its tags
\* instead of being added to them.
RECURSIVE AggregateFrom_KeepLast(_, _, _, _)
AggregateFrom_KeepLast(tag_totals, deck_sigs, cnts, c) ==
  IF c > Len(deck_sigs) THEN tag_totals
  ELSE LET own == AddSignals(<<>>, deck_sigs[c].signals,
                             Get(cnts, deck_sigs[c].card_name, 1), 1)
       IN  AggregateFrom_KeepLast(own @@ tag_totals, deck_sigs, cnts, c + 1)

RECURSIVE AggregateFrom(_, _, _, _)
AggregateFrom(tag_totals, deck_sigs, cnts, c) ==
  IF c > Len(deck_sigs) THEN tag_totals
  ELSE AggregateFrom(AddSignals(tag_totals, deck_sigs[c].signals,
                                Get(cnts, deck_sigs[c].card_name, 1), 1),
                     deck_sigs, cnts, c + 1)

aggregate_tag_counts(deck_sigs, cnts) ==
  AggregateFrom(<<>>, deck_sigs, cnts, 1)

\* ------------------------------------------------------ package scoring
\* count = sum of deck_tag_totals.get(tag, 0.0) over the component's tags
RECURSIVE TagSum(_, _, _)
TagSum(tags, tag_totals, i) ==
  IF i > Len(tags) THEN <<0, 1>>
  ELSE RAdd(Get(tag_totals, tags[i], <<0, 1>>), TagSum(tags, tag_totals, i + 1))

\* Variant of CoverageRatio: the quotient is taken the wrong way round.
CoverageRatio_Inverted(count, min_required) ==
  IF min_required > 0
  THEN (IF RLt(<<0, 1>>, count)
        THEN RMin(<<1, 1>>, RDiv(RInt(min_required), count))
        ELSE <<0, 1>>)
  ELSE <<1, 1>>

\* Variant of CoverageRatio: the ratio is not capped at 1.0.
CoverageRatio_Uncapped(count, min_required) ==
  IF min_required > 0 THEN RDiv(count, RInt(min_required)) ELSE <<1, 1>>

CoverageRatio(count, min_required) ==
  IF min_required > 0 THEN RMin(<<1, 1>>, RDiv(count, RInt(min_required)))
                      ELSE <<1, 1>>

\* Variant of ComponentCoverage: the ratio is taken without the cap.
ComponentCoverage_RawRatio(comp_rule, tag_totals) ==
  LET count == TagSum(comp_rule.tags, tag_totals, 1)
      coverage_ratio == IF comp_rule.min_required > 0
                        THEN RDiv(count, RInt(comp_rule.min_required))
                        ELSE <<1, 1>>
  IN  [name |-> comp_rule.name,
       count |-> RTrunc(count),
       min_required |-> comp_rule.min_required,
       weight |-> comp_rule.weight,
       coverage_ratio |-> coverage_ratio,
       score_contribution |-> RMul(RMul(coverage_ratio, comp_rule.weight), RInt(25))]

\* One iteration of the loop over pkg.components.
ComponentCoverage(comp_rule, tag_totals) ==
  LET count == TagSum(comp_rule.tags, tag_totals, 1)
      coverage_ratio == CoverageRatio(count, comp_rule.min_required)
  IN  [name |-> comp_rule.name,
       count |-> RTrunc(count),
       min_required |-> comp_rule.min_required,
       weight |-> comp_rule.weight,
       coverage_ratio |-> coverage_ratio,
       score_contribution |-> RMul(RMul(coverage_ratio, comp_rule.weight), RInt(25))]

RECURSIVE SumContributions(_, _)
SumContributions(components, i) ==
  IF i > Len(components) THEN <<0, 1>>
  ELSE RAdd(components[i].score_contribution, SumContributions(components, i + 1))

RECURSIVE MaxPossible(_, _)
MaxPossible(components, i) ==
  IF i > Len(components) THEN <<0, 1>>
  ELSE RAdd(RMul(components[i].weight, RInt(25)), MaxPossible(components, i + 1))

\* Variant of FinalScore: the total is not divided by the maximum possible.
FinalScore_Unnormalised(total_score, max_possible) ==
  RMin(<<100, 1>>,
       IF RLt(<<0, 1>>, max_possible) THEN total_score ELSE <<0, 1>>)

FinalScore(total_score, max_possible) ==
  RMin(<<100, 1>>,
       IF RLt(<<0, 1>>, max_possible)
       THEN RMul(RDiv(total_score, max_possible), RInt(100))
       ELSE <<0, 1>>)

RECURSIVE SetSum(_, _)
SetSum(tags, tag_totals) ==
  IF tags = {} THEN <<0, 1>>
  ELSE LET t == CHOOSE x \in tags : TRUE
       IN  RAdd(Get(tag_totals, t, <<0, 1>>), SetSum(tags \ {t}, tag_totals))

\* The set of tags of all components of a package.
RelevantTags(pkg) ==
  UNION {{pkg.components[c].tags[i] : i \in 1..Len(pkg.components[c].tags)} :
           c \in 1..Len(pkg.components)}

ScoreNote(final_score) ==
  IF RLe(<<75, 1>>, final_score) THEN "strong"
  ELSE IF RLe(<<50, 1>>, final_score) THEN "moderate"
  ELSE IF RLe(<<25, 1>>, final_score) THEN "weak"
  ELSE "not present"

\* The loop over pkg.components: one ComponentCoverage appended per rule.
RECURSIVE CoverageLoop(_, _, _)
CoverageLoop(rules, tag_totals, i) ==
  IF i = 0 THEN <<>>
  ELSE Append(CoverageLoop(rules, tag_totals, i - 1),
              ComponentCoverage(rules[i], tag_totals))

\* Variant of score_package: a component at exactly 0.8 is listed as missing.
score_package_MissingAtThreshold(pkg, tag_totals) ==
  LET components == CoverageLoop(pkg.components, tag_totals, Len(pkg.components))
      final_score == FinalScore(SumContributions(components, 1),
                                MaxPossible(components, 1))
      low == {c \in 1..Len(components) : RLe(components[c].coverage_ratio, <<4, 5>>)}
  IN  [name |-> pkg.name,
       score |-> final_score,
       total_signals |-> SetSum(RelevantTags(pkg), tag_totals),
       components |-> components,
       missing |-> [k \in 1..Cardinality(low) |->
                      pkg.components[CHOOSE c \in low :
                        Cardinality({d \in low : d < c}) = k - 1].display_name],
       top_cards |-> <<>>,
       notes |-> <<ScoreNote(final_score)>>]

\* Variant of score_package: the totals of the package's conflict tags are
\* taken off the score.
score_package_ConflictPenalty(pkg, tag_totals) ==
  LET components == CoverageLoop(pkg.components, tag_totals, Len(pkg.components))
      penalty == SetSum(pkg.conflict_tags, tag_totals)
      raw == FinalScore(SumContributions(components, 1),
                        MaxPossible(components, 1))
      final_score == IF RLe(penalty, raw)
                     THEN RAdd(raw, RMul(RInt(-1), penalty))
                     ELSE <<0, 1>>
      low == {c \in 1..Len(components) : RLt(components[c].coverage_ratio, <<4, 5>>)}
  IN  [name |-> pkg.name,
       score |-> final_score,
       total_signals |-> SetSum(RelevantTags(pkg), tag_totals),
       components |-> components,
       missing |-> [k \in 1..Cardinality(low) |->
                      pkg.components[CHOOSE c \in low :
                        Cardinality({d \in low : d < c}) = k - 1].display_name],
       top_cards |-> <<>>,
       notes |-> <<ScoreNote(final_score)>>]

score_package(pkg, tag_totals) ==
  LET components == CoverageLoop(pkg.components, tag_totals, Len(pkg.components))
      final_score == FinalScore(SumContributions(components, 1),
                                MaxPossible(components, 1))
      low == {c \in 1..Len(components) : RLt(components[c].coverage_ratio, <<4, 5>>)}
  IN  [name |-> pkg.name,
       score |-> final_score,
       total_signals |-> SetSum(RelevantTags(pkg), tag_totals),
       components |-> components,
       missing |-> [k \in 1..Cardinality(low) |->
                      pkg.components[CHOOSE c \in low :
                        Cardinality({d \in low : d < c}) = k - 1].display_name],
       top_cards |-> <<>>,
       notes |-> <<ScoreNote(final_score)>>]

\* ---------------------------------------------------- primary selection
\* sorted(results, key=score, reverse=True): indices of results by score
\* descending; the sort is stable, equal scores keep their input order.
SortedByScore(results) ==
  LET n == Len(results)
      before(j, i) == \/ RLt(results[i].score, results[j].score)
                      \/ (results[j].score = results[i].score /\ j < i)
  IN  [k \in 1..n |-> CHOOSE i \in 1..n :
                        Cardinality({j \in 1..n : before(j, i)}) = k - 1]

\* Variant of pick_primary_packages: a score of exactly 30 is dropped.
pick_primary_packages_Strict(all_pkg_results, top_n) ==
  LET sorted_packages == SortedByScore(all_pkg_results)
      head == SubSeq(sorted_packages, 1,
                     IF top_n < Len(sorted_packages) THEN top_n
                                                     ELSE Len(sorted_packages))
  IN  SelectSeq(head, LAMBDA i : RLt(<<30, 1>>, all_pkg_results[i].score))

\* Variant of pick_primary_packages: the best top_n are kept whatever they score.
pick_primary_packages_NoThreshold(all_pkg_results, top_n) ==
  LET sorted_packages == SortedByScore(all_pkg_results)
  IN  SubSeq(sorted_packages, 1,
             IF top_n < Len(sorted_packages) THEN top_n
                                             ELSE Len(sorted_packages))

\* The positions in all_pkg_results of the primary packages, best first.
pick_primary_packages(all_pkg_results, top_n) ==
  LET sorted_packages == SortedByScore(all_pkg_results)
      head == SubSeq(sorted_packages, 1,
                     IF top_n < Len(sorted_packages) THEN top_n
                                                     ELSE Len(sorted_packages))
  IN  SelectSeq(head, LAMBDA i : RLe(<<30, 1>>, all_pkg_results[i].score))

\* ------------------------------------------------ per-card contribution
RECURSIVE Contribution(_, _, _)
Contribution(signals, relevant_tags, i) ==
  IF i > Len(signals) THEN <<0, 1>>
  ELSE RAdd(IF signals[i].tag \in relevant_tags THEN signals[i].strength
                                                ELSE <<0, 1>>,
            Contribution(signals, relevant_tags, i + 1))

\* Variant of CardResult: the contribution is multiplied by the quantity.
CardResult_PerCopy(pkgs, entry, cnts) ==
  LET contribution(p) == RMul(Contribution(entry.signals, RelevantTags(pkgs[p]), 1),
                              RInt(Get(cnts, entry.card_name, 1)))
      scored == {p \in 1..Len(pkgs) : RLt(<<0, 1>>, contribution(p))}
  IN  [card_name |-> entry.card_name,
       signals |-> entry.signals,
       package_scores |-> [name \in {pkgs[p].name : p \in scored} |->
                             contribution(CHOOSE p \in scored : pkgs[p].name = name)]]

CardResult(pkgs, entry, cnts) ==
  LET contribution(p) == Contribution(entry.signals, RelevantTags(pkgs[p]), 1)
      scored == {p \in 1..Len(pkgs) : RLt(<<0, 1>>, contribution(p))}
  IN  [card_name |-> entry.card_name,
       signals |-> entry.signals,
       package_scores |-> [name \in {pkgs[p].name : p \in scored} |->
                             contribution(CHOOSE p \in scored : pkgs[p].name = name)]]

compute_per_card_package_scores(pkgs, deck_sigs, cnts) ==
  [c \in 1..Len(deck_sigs) |-> CardResult(pkgs, deck_sigs[c], cnts)]

\* Variant of rank_top_cards_for_package: the contributions are cut to the
\* limit without being sorted first.
rank_top_cards_for_package_Unsorted(pkg_name, card_results, limit) ==
  LET score(c) == Get(card_results[c].package_scores, pkg_name, <<0, 1>>)
      pos == {c \in 1..Len(card_results) : RLt(<<0, 1>>, score(c))}
      n == Cardinality(pos)
      contributions == [k \in 1..n |->
                          LET c == CHOOSE c \in pos :
                                     Cardinality({d \in pos : d < c}) = k - 1
                          IN  <<card_results[c].card_name, score(c)>>]
  IN  SubSeq(contributions, 1, IF limit < n THEN limit ELSE n)

\* The (card_name, contribution) pairs of a package, best first, at most limit.
rank_top_cards_for_package(pkg_name, card_results, limit) ==
  LET score(c) == Get(card_results[c].package_scores, pkg_name, <<0, 1>>)
      pos == {c \in 1..Len(card_results) : RLt(<<0, 1>>, score(c))}
      before(d, c) == \/ RLt(score(c), score(d))
                      \/ (score(d) = score(c) /\ d < c)
      n == Cardinality(pos)
      contributions == [k \in 1..n |->
                          LET c == CHOOSE c \in pos :
                                     Cardinality({d \in pos : before(d, c)}) = k - 1
                          IN  <<card_results[c].card_name, score(c)>>]
  IN  SubSeq(contributions, 1, IF limit < n THEN limit ELSE n)

\* ------------------------------------------------ conflicts and warnings
Warning(kind, subject, tag) ==
  [kind |-> kind, subject |-> subject, tag |-> tag]

\* Variant of ConflictWarnings: a total of exactly 2.0 does not warn.
RECURSIVE ConflictWarnings_Strict(_, _, _, _)
ConflictWarnings_Strict(pkg_def, tag_order, tag_totals, i) ==
  IF i > Len(tag_order) THEN <<>>
  ELSE (IF RLt(<<2, 1>>, Get(tag_totals, tag_order[i], <<0, 1>>))
        THEN <<Warning("conflict", pkg_def.display_name, tag_order[i])>>
        ELSE <<>>)
       \o ConflictWarnings_Strict(pkg_def, tag_order, tag_totals, i + 1)

\* The loop over pkg_def.conflict_tags in the iteration order tag_order.
RECURSIVE ConflictWarnings(_, _, _, _)
ConflictWarnings(pkg_def, tag_order, tag_totals, i) ==
  IF i > Len(tag_order) THEN <<>>
  ELSE (IF RLe(<<2, 1>>, Get(tag_totals, tag_order[i], <<0, 1>>))
        THEN <<Warning("conflict", pkg_def.display_name, tag_order[i])>>
        ELSE <<>>)
       \o ConflictWarnings(pkg_def, tag_order, tag_totals, i + 1)

\* pkg_map.get(name): the last definition with that name, if any
PkgIndex(package_defs, name) ==
  LET hits == {p \in 1..Len(package_defs) : package_defs[p].name = name}
  IN  IF hits = {} THEN 0 ELSE CHOOSE p \in hits : \A q \in hits : q <= p

\* The possible conflict warnings of chosen[1..i], for every iteration order
\* of each package's conflict_tags set.
RECURSIVE ConflictsUpTo(_, _, _, _)
ConflictsUpTo(chosen, tag_totals, package_defs, i) ==
  IF i = 0 THEN {<<>>}
  ELSE LET p == PkgIndex(package_defs, chosen[i].name)
       IN  IF p = 0 THEN ConflictsUpTo(chosen, tag_totals, package_defs, i - 1)
           ELSE {w \o ConflictWarnings(package_defs[p], tag_order, tag_totals, 1) :
                   w \in ConflictsUpTo(chosen, tag_totals, package_defs, i - 1),
                   tag_order \in Orderings(package_defs[p].conflict_tags)}

\* Variant of detect_synergy_conflicts: the boardwipe warning does not ask
\* for tokens to be among the chosen packages.
detect_synergy_conflicts_AnyDeck(chosen, tag_totals, package_defs) ==
  LET spellslinger ==
        IF (\E i \in 1..Len(chosen) : chosen[i].name = "spellslinger")
           /\ RLt(<<10, 1>>, Get(tag_totals, "expensive_spell", <<0, 1>>))
        THEN <<Warning("expensive_spells", "spellslinger", "expensive_spell")>>
        ELSE <<>>
      tokens ==
        IF RLt(<<3, 1>>, Get(tag_totals, "boardwipe", <<0, 1>>))
        THEN <<Warning("token_boardwipes", "tokens", "boardwipe")>>
        ELSE <<>>
  IN  {w \o spellslinger \o tokens :
         w \in ConflictsUpTo(chosen, tag_totals, package_defs, Len(chosen))}

\* The set of possible warning lists of detect_synergy_conflicts.
detect_synergy_conflicts(chosen, tag_totals, package_defs) ==
  LET spellslinger ==
        IF (\E i \in 1..Len(chosen) : chosen[i].name = "spellslinger")
           /\ RLt(<<10, 1>>, Get(tag_totals, "expensive_spell", <<0, 1>>))
        THEN <<Warning("expensive_spells", "spellslinger", "expensive_spell")>>
        ELSE <<>>
      tokens ==
        IF (\E i \in 1..Len(chosen) : chosen[i].name = "tokens")
           /\ RLt(<<3, 1>>, Get(tag_totals, "boardwipe", <<0, 1>>))
        THEN <<Warning("token_boardwipes", "tokens", "boardwipe")>>
        ELSE <<>>
  IN  {w \o spellslinger \o tokens :
         w \in ConflictsUpTo(chosen, tag_totals, package_defs, Len(chosen))}

\* (payoff_tag, enabler_tag, payoff_name, enabler_name)
OrphanPairs ==
  <<<<"artifact_payoff", "artifact_count", "artifact", "artifacts">>,
    <<"token_payoff", "token_producer", "token payoff", "token producers">>,
    <<"spell_payoff", "cheap_spell", "spell payoff", "cheap spells">>,
    <<"death_payoff", "sac_outlet", "death payoff", "sacrifice outlets">>,
    <<"counter_payoff", "counter_source", "counter payoff", "counter sources">>>>

\* Variant of OrphanCheck: only the payoff direction is checked.
OrphanCheck_OneWay(pair, tag_totals, threshold) ==
  LET payoff_count == Get(tag_totals, pair[1], <<0, 1>>)
      enabler_count == Get(tag_totals, pair[2], <<0, 1>>)
  IN  IF RLe(threshold, payoff_count) /\ RLt(enabler_count, threshold)
      THEN <<Warning("orphan_payoff", pair[3], pair[1])>>
      ELSE <<>>

OrphanCheck(pair, tag_totals, threshold) ==
  LET payoff_count == Get(tag_totals, pair[1], <<0, 1>>)
      enabler_count == Get(tag_totals, pair[2], <<0, 1>>)
  IN  IF RLe(threshold, payoff_count) /\ RLt(enabler_count, threshold)
      THEN <<Warning("orphan_payoff", pair[3], pair[1])>>
      ELSE IF RLe(RMul(threshold, RInt(2)), enabler_count) /\ RLt(payoff_count, <<2, 1>>)
      THEN <<Warning("orphan_enabler", pair[4], pair[2])>>
      ELSE <<>>

RECURSIVE OrphansFrom(_, _, _)
OrphansFrom(tag_totals, threshold, i) ==
  IF i > Len(OrphanPairs) THEN <<>>
  ELSE OrphanCheck(OrphanPairs[i], tag_totals, threshold)
       \o OrphansFrom(tag_totals, threshold, i + 1)

detect_orphan_payoffs(tag_totals, threshold) ==
  OrphansFrom(tag_totals, threshold, 1)

\* ------------------------------------------------------- the engine run
VARIABLES
  deck_cards,           \* argument: the card records, in list order
  counts,               \* argument: card name -> quantity (partial)
  packages,             \* argument: [is_none, defs], the optional catalog
  pc,                   \* the step evaluate_synergy is about to run, or
                        \* "done" (returned), "raised" (left by an exception)
  deck_signals,         \* step 1: <<[card_name, signals]>> in insertion order
  deck_tag_totals,      \* step 2: tag -> total
  all_package_results,  \* step 3: one PackageResult per catalog package
  primary_packages,     \* step 4: positions in all_package_results (aliases)
  per_card,             \* step 5: <<[card_name, signals, package_scores]>>
  warnings,             \* step 7
  overall_score         \* step 8

vars ==
  <<deck_cards, counts, packages, pc, deck_signals, deck_tag_totals,
    all_package_results, primary_packages, per_card, warnings, overall_score>>

\* Card lists: at most MaxDeck distinct pool cards, in pool order.
Decks ==
  LET SubList(S) == [k \in 1..Cardinality(S) |->
                       CardPool[CHOOSE i \in S : Cardinality({j \in S : j < i}) = k - 1]]
  IN  {SubList(S) : S \in {T \in SUBSET (1..Len(CardPool)) : Cardinality(T) <= MaxDeck}}

CardNames(cards) ==
  {cards[i].name : i \in 1..Len(cards)}

\* Quantity maps: any subset of the deck's names, quantities 1..MaxQty.
QuantityMaps(cards) ==
  UNION {[S -> 1..MaxQty] : S \in SUBSET CardNames(cards)}

\* The malformed catalog is tried with every card list, without quantities.
Init ==
  /\ deck_cards \in Decks
  /\ \/ /\ counts \in QuantityMaps(deck_cards)
        /\ packages \in {[is_none |-> TRUE, defs |-> <<>>],
                         [is_none |-> FALSE, defs |-> TestCatalog]}
     \/ /\ counts = <<>>
        /\ packages = [is_none |-> FALSE, defs |-> MalformedCatalog]
  /\ pc = "build_signals"
  /\ deck_signals = <<>>
  /\ deck_tag_totals = <<>>
  /\ all_package_results = <<>>
  /\ primary_packages = <<>>
  /\ per_card = <<>>
  /\ warnings = <<>>
  /\ overall_score = <<0, 1>>

\* packages defaults to the built-in catalog; 1) build signals. An
\* exception of the extractor is not caught: it ends the run.
BuildSignals ==
  /\ pc = "build_signals"
  /\ packages' = IF packages.is_none
                 THEN [is_none |-> FALSE, defs |-> get_default_packages]
                 ELSE packages
  /\ IF \E i \in 1..Len(deck_cards) : Raises(deck_cards[i])
     THEN /\ deck_signals' = deck_signals
          /\ pc' = "raised"
     ELSE /\ deck_signals' \in build_deck_signal_index(deck_cards)
          /\ pc' = "aggregate"
  /\ UNCHANGED <<deck_cards, counts, deck_tag_totals, all_package_results,
                 primary_packages, per_card, warnings, overall_score>>

\* 2) aggregate tags
AggregateTags ==
  /\ pc = "aggregate"
  /\ deck_tag_totals' = aggregate_tag_counts(deck_signals, counts)
  /\ pc' = "score"
  /\ UNCHANGED <<deck_cards, counts, packages, deck_signals, all_package_results,
                 primary_packages, per_card, warnings, overall_score>>

\* All tags of a package's components, in component order.
RECURSIVE AllTags(_, _)
AllTags(components, i) ==
  IF i > Len(components) THEN <<>>
  ELSE components[i].tags \o AllTags(components, i + 1)

\* Variant of ScorePackages: relevant_tags aliases the tag list of the first
\* component and is extended in place, which writes into the catalog.
ScorePackages_AliasedTags ==
  /\ pc = "score"
  /\ all_package_results' = [p \in 1..Len(packages.defs) |->
                               score_package(packages.defs[p], deck_tag_totals)]
  /\ packages' = [packages EXCEPT !.defs =
                    [p \in 1..Len(packages.defs) |->
                       [packages.defs[p] EXCEPT !.components =
                          [c \in 1..Len(packages.defs[p].components) |->
                             IF c = 1
                             THEN [packages.defs[p].components[c] EXCEPT !.tags =
                                     AllTags(packages.defs[p].components, 1)]
                             ELSE packages.defs[p].components[c]]]]]
  /\ pc' = "pick_primary"
  /\ UNCHANGED <<deck_cards, counts, deck_signals, deck_tag_totals,
                 primary_packages, per_card, warnings, overall_score>>

\* 3) score all packages
ScorePackages ==
  /\ pc = "score"
  /\ all_package_results' = [p \in 1..Len(packages.defs) |->
                               score_package(packages.defs[p], deck_tag_totals)]
  /\ pc' = "pick_primary"
  /\ UNCHANGED <<deck_cards, counts, packages, deck_signals, deck_tag_totals,
                 primary_packages, per_card, warnings, overall_score>>

\* 4) pick primary packages
PickPrimary ==
  /\ pc = "pick_primary"
  /\ primary_packages' = pick_primary_packages(all_package_results, 3)
  /\ pc' = "per_card"
  /\ UNCHANGED <<deck_cards, counts, packages, deck_signals, deck_tag_totals,
                 all_package_results, per_card, warnings, overall_score>>

\* 5) per-card scoring
PerCardScoring ==
  /\ pc = "per_card"
  /\ per_card' = compute_per_card_package_scores(packages.defs, deck_signals, counts)
  /\ pc' = "top_cards"
  /\ UNCHANGED <<deck_cards, counts, packages, deck_signals, deck_tag_totals,
                 all_package_results, primary_packages, warnings, overall_score>>

\* Variant of FillTopCards: the top cards are filled in for every package.
FillTopCards_AllPackages ==
  /\ pc = "top_cards"
  /\ all_package_results' =
       [p \in 1..Len(all_package_results) |->
          [all_package_results[p] EXCEPT !.top_cards =
             rank_top_cards_for_package(all_package_results[p].name, per_card, 10)]]
  /\ pc' = "warnings"
  /\ UNCHANGED <<deck_cards, counts, packages, deck_signals, deck_tag_totals,
                 primary_packages, per_card, warnings, overall_score>>

\* 6) fill in top cards for primary packages (the results are shared with
\*    all_package_results)
FillTopCards ==
  /\ pc = "top_cards"
  /\ all_package_results' =
       [p \in 1..Len(all_package_results) |->
          IF \E k \in 1..Len(primary_packages) : primary_packages[k] = p
          THEN [all_package_results[p] EXCEPT !.top_cards =
                  rank_top_cards_for_package(all_package_results[p].name, per_card, 10)]
          ELSE all_package_results[p]]
  /\ pc' = "warnings"
  /\ UNCHANGED <<deck_cards, counts, packages, deck_signals, deck_tag_totals,
                 primary_packages, per_card, warnings, overall_score>>

\* The PackageResult objects primary_packages refers to.
PrimaryResults ==
  [k \in 1..Len(primary_packages) |-> all_package_results[primary_packages[k]]]

\* 7) warnings/conflicts
CollectWarnings ==
  /\ pc = "warnings"
  /\ \E conflicts \in detect_synergy_conflicts(PrimaryResults, deck_tag_totals,
                                               packages.defs) :
       warnings' = conflicts \o detect_orphan_payoffs(deck_tag_totals, <<4, 1>>)
  /\ pc' = "overall"
  /\ UNCHANGED <<deck_cards, counts, packages, deck_signals, deck_tag_totals,
                 all_package_results, primary_packages, per_card, overall_score>>

\* Variant of OverallScore: the mean is taken over all primary packages.
OverallScore_MeanOfAll(primary) ==
  IF Len(primary) >= 3
  THEN RDiv(RAdd(RAdd(primary[1].score, primary[2].score), primary[3].score), RInt(3))
  ELSE IF Len(primary) = 2
  THEN RDiv(RAdd(primary[1].score, primary[2].score), RInt(2))
  ELSE IF Len(primary) = 1 THEN primary[1].score
  ELSE <<0, 1>>

\* Variant of OverallScore: the two best scores are added, not averaged.
OverallScore_Sum(primary) ==
  IF Len(primary) >= 2 THEN RAdd(primary[1].score, primary[2].score)
  ELSE IF Len(primary) = 1 THEN primary[1].score
  ELSE <<0, 1>>

OverallScore(primary) ==
  IF Len(primary) >= 2
  THEN RDiv(RAdd(primary[1].score, primary[2].score), RInt(2))
  ELSE IF Len(primary) = 1 THEN primary[1].score
  ELSE <<0, 1>>

\* 8) compute overall score and return the report
ComputeOverall ==
  /\ pc = "overall"
  /\ overall_score' = OverallScore(PrimaryResults)
  /\ pc' = "done"
  /\ UNCHANGED <<deck_cards, counts, packages, deck_signals, deck_tag_totals,
                 all_package_results, primary_packages, per_card, warnings>>

Next ==
  \/ BuildSignals
  \/ AggregateTags
  \/ ScorePackages
  \/ PickPrimary
  \/ PerCardScoring
  \/ FillTopCards
  \/ CollectWarnings
  \/ ComputeOverall

Spec ==
  Init /\ [][Next]_vars

\* ================================================================ claims
Zero ==
  <<0, 1>>

InRange(x) ==
  RLe(Zero, x) /\ RLe(x, <<100, 1>>)

\* Every component of every catalog package has a positive minimum.
AllMinimaPositive(p) ==
  \A c \in 1..Len(packages.defs[p].components) :
    packages.defs[p].components[c].min_required > 0

RECURSIVE SpecCount(_, _)
SpecCount(tags, n) ==
  IF n = 0 THEN Zero
  ELSE RAdd(SpecCount(tags, n - 1),
            IF tags[n] \in DOMAIN deck_tag_totals THEN deck_tag_totals[tags[n]] ELSE Zero)

SpecRatio(rule) ==
  LET count == SpecCount(rule.tags, Len(rule.tags))
      raw == RDiv(count, RInt(rule.min_required))
  IN  IF rule.min_required > 0
      THEN (IF RLe(<<1, 1>>, raw) THEN <<1, 1>> ELSE raw)
      ELSE <<1, 1>>

RECURSIVE SpecWeighted(_, _)
SpecWeighted(rules, n) ==
  IF n = 0 THEN Zero
  ELSE RAdd(SpecWeighted(rules, n - 1),
            RMul(RMul(SpecRatio(rules[n]), rules[n].weight), RInt(25)))

RECURSIVE SpecMax(_, _)
SpecMax(rules, n) ==
  IF n = 0 THEN Zero
  ELSE RAdd(SpecMax(rules, n - 1), RMul(rules[n].weight, RInt(25)))

\* C2: each component's coverage_ratio is min(1, count / min_required) (1 when
\* min_required is not positive) with count the sum of the totals of its
\* tags, its contribution is ratio * weight * 25, and the package score is
\* 100 * (sum of contributions) / (sum of weight * 25), in the returned report.
C2_ScoreFormula ==
  pc = "done" =>
    \A p \in 1..Len(packages.defs) :
      LET rules == packages.defs[p].components
          res == all_package_results[p]
      IN  /\ Len(res.components) = Len(rules)
          /\ \A c \in 1..Len(rules) :
               /\ res.components[c].coverage_ratio = SpecRatio(rules[c])
               /\ res.components[c].score_contribution =
                    RMul(RMul(SpecRatio(rules[c]), rules[c].weight), RInt(25))
          /\ RMul(res.score, SpecMax(rules, Len(rules))) =
               RMul(RInt(100), SpecWeighted(rules, Len(rules)))

\* A package with one component over its minimum and one partly covered.
C2_Witness ==
  /\ pc = "done"
  /\ \E p \in 1..Len(packages.defs) :
       LET rules == packages.defs[p].components
       IN  /\ \E c \in 1..Len(rules) :
                /\ rules[c].min_required > 0
                /\ RLt(RInt(rules[c].min_required), SpecCount(rules[c].tags, Len(rules[c].tags)))
           /\ \E c \in 1..Len(rules) :
                /\ RLt(Zero, all_package_results[p].components[c].coverage_ratio)
                /\ RLt(all_package_results[p].components[c].coverage_ratio, <<1, 1>>)
           /\ RLt(Zero, all_package_results[p].score)
           /\ RLt(all_package_results[p].score, <<100, 1>>)

Picked ==
  pc \in {"per_card", "top_cards", "warnings", "overall", "done"}

\* Package j ranks before package i: higher score, or equal score and earlier
\* in the catalog.
RanksBefore(j, i) ==
  \/ RLt(all_package_results[i].score, all_package_results[j].score)
  \/ /\ all_package_results[j].score = all_package_results[i].score
     /\ j < i

Rank(i) ==
  1 + Cardinality({j \in 1..Len(all_package_results) : RanksBefore(j, i)})

IsPrimary(i) ==
  \E k \in 1..Len(primary_packages) : primary_packages[k] = i

\* C3: the primary packages are ordered by score descending with ties in
\* catalog order, are at most 3, all score at least 30, and a package among
\* the three best that scores 30 or more (30.0 included) is primary.
C3_PrimarySelection ==
  Picked =>
    /\ Len(primary_packages) <= 3
    /\ \A k \in 1..Len(primary_packages) :
         /\ primary_packages[k] \in 1..Len(all_package_results)
         /\ RLe(<<30, 1>>, all_package_results[primary_packages[k]].score)
         /\ Rank(primary_packages[k]) = k
    /\ \A i \in 1..Len(all_package_results) :
         (Rank(i) <= 3 /\ RLe(<<30, 1>>, all_package_results[i].score)) => IsPrimary(i)

\* Three primaries, one of them at exactly 30.0, while a package tied with it
\* is cut by top_n and another package stays below 30.
C3_Witness ==
  /\ pc = "done"
  /\ Len(primary_packages) = 3
  /\ \E i, j, l \in 1..Len(all_package_results) :
       /\ IsPrimary(i) /\ all_package_results[i].score = <<30, 1>>
       /\ ~IsPrimary(j) /\ all_package_results[j].score = <<30, 1>> /\ i < j
       /\ RLt(Zero, all_package_results[l].score)
       /\ RLt(all_package_results[l].score, <<30, 1>>)

Aggregated ==
  pc \notin {"build_signals", "aggregate"}

Quantity(card_name) ==
  IF card_name \in DOMAIN counts THEN counts[card_name] ELSE 1

\* The (card, signal) positions of the signal index that carry a tag.
Carriers(tag) ==
  {pair \in UNION {{<<c, i>> : i \in 1..Len(deck_signals[c].signals)} :
                     c \in 1..Len(deck_signals)} :
     deck_signals[pair[1]].signals[pair[2]].tag = tag}

RECURSIVE WeightedSum(_)
WeightedSum(pairs) ==
  IF pairs = {} THEN Zero
  ELSE LET pair == CHOOSE x \in pairs : TRUE
       IN  RAdd(RMul(deck_signals[pair[1]].signals[pair[2]].strength,
                     RInt(Quantity(deck_signals[pair[1]].card_name))),
                WeightedSum(pairs \ {pair}))

CarriedTags ==
  UNION {{deck_signals[c].signals[i].tag : i \in 1..Len(deck_signals[c].signals)} :
           c \in 1..Len(deck_signals)}

\* C4: the total of every tag is the sum over the (card, signal) pairs with
\* that tag of strength * quantity, quantity 1 for a card absent from the
\* quantity map; a tag no card carries has no entry.
C4_AggregateTotals ==
  pc = "done" =>
    /\ DOMAIN deck_tag_totals = CarriedTags
    /\ \A tag \in CarriedTags : deck_tag_totals[tag] = WeightedSum(Carriers(tag))

\* Four copies of Viscera Seer (one sac_outlet signal of strength 1.0) give
\* sac_outlet 4.0, next to a card that is absent from the quantity map.
C4_Witness ==
  /\ Aggregated
  /\ "Viscera Seer" \in DOMAIN counts /\ counts["Viscera Seer"] = 4
  /\ "sac_outlet" \in DOMAIN deck_tag_totals
  /\ deck_tag_totals["sac_outlet"] = <<4, 1>>
  /\ \E c \in 1..Len(deck_signals) :
       /\ deck_signals[c].card_name \notin DOMAIN counts
       /\ deck_signals[c].signals # <<>>

\* The signals of a card whose tag belongs to a component of the package.
OwnSignals(c, pkg) ==
  {i \in 1..Len(deck_signals[c].signals) :
     \E k \in 1..Len(pkg.components) :
       \E t \in 1..Len(pkg.components[k].tags) :
         pkg.components[k].tags[t] = deck_signals[c].signals[i].tag}

RECURSIVE StrengthSum(_, _)
StrengthSum(c, positions) ==
  IF positions = {} THEN Zero
  ELSE LET i == CHOOSE x \in positions : TRUE
       IN  RAdd(deck_signals[c].signals[i].strength, StrengthSum(c, positions \ {i}))

\* C5: for every card and every catalog package, package_scores has an entry
\* for the package exactly when the card's own signals with a tag of the
\* package have a positive strength sum, and the entry is that sum, whatever
\* the card's quantity.
C5_PerCardScores ==
  pc = "done" =>
    /\ Len(per_card) = Len(deck_signals)
    /\ \A c \in 1..Len(per_card) :
         /\ per_card[c].card_name = deck_signals[c].card_name
         /\ DOMAIN per_card[c].package_scores \subseteq
              {packages.defs[p].name : p \in 1..Len(packages.defs)}
         /\ \A p \in 1..Len(packages.defs) :
              LET own == StrengthSum(c, OwnSignals(c, packages.defs[p]))
                  name == packages.defs[p].name
              IN  /\ name \in DOMAIN per_card[c].package_scores <=> RLt(Zero, own)
                  /\ RLt(Zero, own) => per_card[c].package_scores[name] = own

\* A card held in four copies has an entry for a package that is not primary.
C5_Witness ==
  /\ pc = "done"
  /\ \E c \in 1..Len(per_card), p \in 1..Len(packages.defs) :
       /\ Quantity(per_card[c].card_name) = 4
       /\ ~IsPrimary(p)
       /\ packages.defs[p].name \in DOMAIN per_card[c].package_scores
       /\ \E q \in 1..Len(packages.defs) :
            packages.defs[q].name \notin DOMAIN per_card[c].package_scores

\* The quantity map with one more copy of a card.
OneMore(card_name) ==
  [n \in DOMAIN counts \cup {card_name} |->
     IF n = card_name THEN Quantity(card_name) + 1 ELSE counts[n]]

\* Card c carries a tag of the component rule.
Supports(c, rule) ==
  \E i \in 1..Len(deck_signals[c].signals), t \in 1..Len(rule.tags) :
    deck_signals[c].signals[i].tag = rule.tags[t]

\* C6: one more copy of a card that carries a tag of a component never lowers
\* that component's coverage_ratio nor the score of its package.
C6_Monotonicity ==
  pc = "done" =>
    \A c \in 1..Len(deck_signals) :
      LET more == aggregate_tag_counts(deck_signals, OneMore(deck_signals[c].card_name))
      IN  \A p \in 1..Len(packages.defs) :
            LET now == all_package_results[p]
                then == score_package(packages.defs[p], more)
            IN  \A k \in 1..Len(packages.defs[p].components) :
                  Supports(c, packages.defs[p].components[k]) =>
                    /\ RLe(now.components[k].coverage_ratio,
                           then.components[k].coverage_ratio)
                    /\ RLe(now.score, then.score)

\* One more copy raises the score of one package strictly and leaves a
\* component that is already fully covered at 1.0.
C6_Witness ==
  /\ pc = "done"
  /\ \E c \in 1..Len(deck_signals) :
       LET more == aggregate_tag_counts(deck_signals, OneMore(deck_signals[c].card_name))
       IN  /\ \E p \in 1..Len(packages.defs) :
                /\ \E k \in 1..Len(packages.defs[p].components) :
                     Supports(c, packages.defs[p].components[k])
                /\ RLt(all_package_results[p].score,
                       score_package(packages.defs[p], more).score)
           /\ \E p \in 1..Len(packages.defs) :
                \E k \in 1..Len(packages.defs[p].components) :
                  /\ Supports(c, packages.defs[p].components[k])
                  /\ packages.defs[p].components[k].min_required > 0
                  /\ all_package_results[p].components[k].coverage_ratio = <<1, 1>>

C8_OverallScore ==
  pc = "done" =>
    LET n == Len(primary_packages)
        first == all_package_results[primary_packages[1]].score
        second == all_package_results[primary_packages[2]].score
    IN  /\ n >= 2 => RMul(RInt(2), overall_score) = RAdd(first, second)
        /\ n = 1 => overall_score = first
        /\ n = 0 => overall_score = Zero

\* Three primary packages with three different scores.
C8_Witness ==
  /\ pc = "done"
  /\ Len(primary_packages) = 3
  /\ RLt(all_package_results[primary_packages[2]].score,
         all_package_results[primary_packages[1]].score)
  /\ RLt(all_package_results[primary_packages[3]].score,
         all_package_results[primary_packages[2]].score)

Warned ==
  pc \in {"overall", "done"}

ConflictWarningsFor(display_name, tag) ==
  {w \in 1..Len(warnings) :
     /\ warnings[w].kind = "conflict"
     /\ warnings[w].subject = display_name
     /\ warnings[w].tag = tag}

TotalOf(tag) ==
  IF tag \in DOMAIN deck_tag_totals THEN deck_tag_totals[tag] ELSE Zero

ConflictDue(p, tag) ==
  /\ IsPrimary(p)
  /\ tag \in packages.defs[p].conflict_tags
  /\ RLe(<<2, 1>>, TotalOf(tag))

\* C9: a conflict warning names package P and tag t exactly when P is primary,
\* t is one of P's conflict tags and the total of t is at least 2.0; there is
\* one warning for each such pair and no other conflict warning.
C9_ConflictWarnings ==
  Warned =>
    /\ \A p \in 1..Len(packages.defs) :
         \A tag \in packages.defs[p].conflict_tags \cup DOMAIN deck_tag_totals :
           Cardinality(ConflictWarningsFor(packages.defs[p].display_name, tag)) =
             IF ConflictDue(p, tag) THEN 1 ELSE 0
    /\ \A w \in 1..Len(warnings) :
         warnings[w].kind = "conflict" =>
           \E p \in 1..Len(packages.defs) :
             /\ warnings[w].subject = packages.defs[p].display_name
             /\ ConflictDue(p, warnings[w].tag)

\* A primary package has a conflict tag at exactly 2.0, which warns, and
\* another below 2.0, which does not; a package that is not primary has a
\* conflict tag at 2.0 or more and stays silent.
C9_Witness ==
  /\ pc = "done"
  /\ \E p \in 1..Len(packages.defs) :
       /\ IsPrimary(p)
       /\ \E t1, t2 \in packages.defs[p].conflict_tags :
            /\ TotalOf(t1) = <<2, 1>>
            /\ ConflictWarningsFor(packages.defs[p].display_name, t1) # {}
            /\ RLt(Zero, TotalOf(t2)) /\ RLt(TotalOf(t2), <<2, 1>>)
  /\ \E q \in 1..Len(packages.defs) :
       /\ ~IsPrimary(q)
       /\ \E t \in packages.defs[q].conflict_tags : RLe(<<2, 1>>, TotalOf(t))

OrphanWarnings(kind, tag) ==
  {w \in 1..Len(warnings) : warnings[w].kind = kind /\ warnings[w].tag = tag}

PayoffOrphaned(pair) ==
  RLe(<<4, 1>>, TotalOf(pair[1])) /\ RLt(TotalOf(pair[2]), <<4, 1>>)

EnablerOrphaned(pair) ==
  RLe(<<8, 1>>, TotalOf(pair[2])) /\ RLt(TotalOf(pair[1]), <<2, 1>>)

\* C10: for every pair of the table, the payoff warning is given exactly when
\* payoff_total >= 4 and enabler_total < 4, the enabler warning exactly when
\* enabler_total >= 8 and payoff_total < 2, whatever the primary packages
\* are, and there is no other orphan warning.
C10_OrphanWarnings ==
  Warned =>
    /\ \A i \in 1..Len(OrphanPairs) :
         /\ Cardinality(OrphanWarnings("orphan_payoff", OrphanPairs[i][1])) =
              IF PayoffOrphaned(OrphanPairs[i]) THEN 1 ELSE 0
         /\ Cardinality(OrphanWarnings("orphan_enabler", OrphanPairs[i][2])) =
              IF EnablerOrphaned(OrphanPairs[i]) THEN 1 ELSE 0
    /\ \A w \in 1..Len(warnings) :
         warnings[w].kind \in {"orphan_payoff", "orphan_enabler"} =>
           \E i \in 1..Len(OrphanPairs) :
             warnings[w].tag = OrphanPairs[i][IF warnings[w].kind = "orphan_payoff" THEN 1 ELSE 2]

\* One pair has its enablers at exactly 8.0 with no payoff and warns, while
\* no pair has orphaned payoffs.
C10_Witness ==
  /\ pc = "done"
  /\ \E i \in 1..Len(OrphanPairs) :
       /\ TotalOf(OrphanPairs[i][2]) = <<8, 1>>
       /\ TotalOf(OrphanPairs[i][1]) = Zero
       /\ OrphanWarnings("orphan_enabler", OrphanPairs[i][2]) # {}
  /\ \A i \in 1..Len(OrphanPairs) :
       OrphanWarnings("orphan_payoff", OrphanPairs[i][1]) = {}

\* C11: determinism. For the same card list, quantity map and catalog every
\* run yields the same report: the signal index of the run is the only one
\* the extractor can build from the card list, and the warning list of the
\* run is the only one the detector can build, whatever order the keyword
\* sets and the conflict_tags sets are iterated in.
C11_Determinism ==
  /\ pc \notin {"build_signals", "raised"} =>
       \A index \in build_deck_signal_index(deck_cards) : index = deck_signals
  /\ Warned =>
       \A conflicts \in detect_synergy_conflicts(PrimaryResults, deck_tag_totals,
                                                 packages.defs) :
         warnings = conflicts \o detect_orphan_payoffs(deck_tag_totals, <<4, 1>>)

\* ------------------------------------------- the scoring steps on their own
\* Steps 3 to 8 of evaluate_synergy applied to given tag totals: the totals
\* are the input of score_package, pick_primary_packages and the overall
\* score, whatever deck produced them.
MaxTotal ==
  6

\* Totals 0, 2, .. 2 * MaxTotal for the three tags of the tokens scenario.
TagTotals ==
  LET amounts == {RInt(2 * n) : n \in 0..MaxTotal}
  IN  {[t \in S |-> f[t]] : S \in SUBSET {"token_producer", "token_payoff", "anthem"},
                            f \in [{"token_producer", "token_payoff", "anthem"} -> amounts]}

ScoringInit ==
  /\ deck_cards = <<>>
  /\ counts = <<>>
  /\ packages \in {[is_none |-> FALSE, defs |-> get_default_packages],
                   [is_none |-> FALSE, defs |-> TestCatalog]}
  /\ pc = "score"
  /\ deck_signals = <<>>
  /\ deck_tag_totals \in TagTotals
  /\ all_package_results = <<>>
  /\ primary_packages = <<>>
  /\ per_card = <<>>
  /\ warnings = <<>>
  /\ overall_score = <<0, 1>>

ScoringNext ==
  \/ ScorePackages
  \/ PickPrimary
  \/ PerCardScoring
  \/ FillTopCards
  \/ CollectWarnings
  \/ ComputeOverall

ScoringSpec ==
  ScoringInit /\ [][ScoringNext]_vars

\* Every component of catalog package p has a count at or over its minimum.
FullyCovered(p) ==
  \A c \in 1..Len(packages.defs[p].components) :
    LET rule == packages.defs[p].components[c]
    IN  RLe(RInt(rule.min_required), SpecCount(rule.tags, Len(rule.tags)))

\* The tag totals of the tokens scenario.
TokensScenario ==
  /\ packages.defs = get_default_packages
  /\ deck_tag_totals = [t \in {"token_producer", "token_payoff", "anthem"} |->
                          CASE t = "token_producer" -> <<12, 1>>
                            [] t = "token_payoff" -> <<8, 1>>
                            [] t = "anthem" -> <<4, 1>>]

\* C12: a package whose components all have a count >= min_required scores
\* exactly 100; with totals token_producer 12, token_payoff 8, anthem 4 and
\* the built-in catalog, tokens scores 100, is the only primary package and
\* overall_score is 100.
C12_FullCoverage ==
  pc = "done" =>
    /\ \A p \in 1..Len(packages.defs) :
         FullyCovered(p) => all_package_results[p].score = <<100, 1>>
    /\ TokensScenario =>
         /\ Len(primary_packages) = 1
         /\ all_package_results[primary_packages[1]].name = "tokens"
         /\ all_package_results[primary_packages[1]].score = <<100, 1>>
         /\ overall_score = <<100, 1>>

\* The tokens scenario was scored, and no other package reaches 30.
C12_Witness ==
  /\ pc = "done"
  /\ TokensScenario
  /\ \E p \in 1..Len(packages.defs) :
       /\ packages.defs[p].name = "tokens"
       /\ FullyCovered(p)
       /\ all_package_results[p].score = <<100, 1>>
  /\ \E p \in 1..Len(packages.defs) :
       /\ RLt(Zero, all_package_results[p].score)
       /\ RLt(all_package_results[p].score, <<30, 1>>)

\* C13: a card whose extraction fails is isolated: the run is never ended by
\* an exception of the extractor, it goes on to a report.
C13_FailureIsolated ==
  pc # "raised"

\* Some component of the catalog has a negative min_required.
Malformed(catalog) ==
  \E p \in 1..Len(catalog) : \E c \in 1..Len(catalog[p].components) :
    catalog[p].components[c].min_required < 0

\* C14: a malformed catalog is rejected when it is handed to the engine: none
\* of its packages is ever scored.
C14_CatalogRejected ==
  Malformed(packages.defs) => all_package_results = <<>>

\* The oracle text of the card record is empty or missing.
EmptyText(card) ==
  card.oracle_text.contains = {} /\ card.oracle_text.matches = {}

\* C15: a card with empty (or missing) oracle text emits no signal from the
\* oracle text: every signal of it comes from the type line, the cost or the
\* keyword set, and its extraction does not fail.
C15_EmptyOracleText ==
  pc = "done" =>
    /\ Len(deck_signals) = Len(deck_cards)
    /\ \A c \in 1..Len(deck_cards) :
         EmptyText(deck_cards[c]) =>
           /\ deck_signals[c].card_name = deck_cards[c].name
           /\ \A i \in 1..Len(deck_signals[c].signals) :
                deck_signals[c].signals[i].source \in {"type_line", "cmc", "keywords"}

\* A card without oracle text was extracted and emitted type and cost signals.
C15_Witness ==
  /\ pc = "done"
  /\ \E c \in 1..Len(deck_cards) :
       /\ EmptyText(deck_cards[c])
       /\ \E i \in 1..Len(deck_signals[c].signals) :
            deck_signals[c].signals[i].source = "type_line"
       /\ \E i \in 1..Len(deck_signals[c].signals) :
            deck_signals[c].signals[i].source = "cmc"

\* ------------------------------------------- the ranking step on its own
\* rank_top_cards_for_package applied to given per-card results with a limit
\* smaller than the number of cards.
MaxRanked ==
  3

TopLimit ==
  2

RankedNames ==
  <<"Card A", "Card B", "Card C", "Card D", "Card E">>

\* A card's package_scores: positive entries for some of two packages.
PackageScores ==
  UNION {[S -> {<<1, 1>>, <<3, 2>>}] : S \in SUBSET {"sac", "tokens"}}

\* Per-card results of up to MaxRanked cards, in insertion order.
PerCardResults ==
  UNION {{[c \in 1..n |-> [card_name |-> RankedNames[c], signals |-> <<>>,
                           package_scores |-> f[c]]] :
            f \in [1..n -> PackageScores]} : n \in 0..MaxRanked}

RankingInit ==
  /\ deck_cards = <<>>
  /\ counts = <<>>
  /\ packages = [is_none |-> FALSE, defs |-> TestCatalog]
  /\ pc = "top_cards"
  /\ deck_signals = <<>>
  /\ deck_tag_totals = <<>>
  /\ all_package_results = [p \in 1..Len(TestCatalog) |->
                              score_package(TestCatalog[p], <<>>)]
  /\ primary_packages = <<1>>
  /\ per_card \in PerCardResults
  /\ warnings = <<>>
  /\ overall_score = <<0, 1>>

\* One call of rank_top_cards_for_package with limit TopLimit, stored as in
\* step 6.
RankTopCards ==
  /\ pc = "top_cards"
  /\ all_package_results' =
       [p \in 1..Len(all_package_results) |->
          IF \E k \in 1..Len(primary_packages) : primary_packages[k] = p
          THEN [all_package_results[p] EXCEPT !.top_cards =
                  rank_top_cards_for_package(all_package_results[p].name, per_card,
                                             TopLimit)]
          ELSE all_package_results[p]]
  /\ pc' = "warnings"
  /\ UNCHANGED <<deck_cards, counts, packages, deck_signals, deck_tag_totals,
                 primary_packages, per_card, warnings, overall_score>>

RankingSpec ==
  RankingInit /\ [][RankTopCards]_vars

\* The ranked package, its returned list and the cards it could return.
RankedPackage ==
  all_package_results[primary_packages[1]].name

Returned ==
  all_package_results[primary_packages[1]].top_cards

ScoreFor(c) ==
  IF RankedPackage \in DOMAIN per_card[c].package_scores
  THEN per_card[c].package_scores[RankedPackage] ELSE Zero

Positive ==
  {c \in 1..Len(per_card) : RLt(Zero, ScoreFor(c))}

\* The position in per_card of the k-th returned card.
Origin(k) ==
  CHOOSE c \in 1..Len(per_card) : per_card[c].card_name = Returned[k][1]

\* C16: the returned list holds only cards with a positive score for the
\* package, with that score, in non-increasing order of score, equal scores
\* in insertion order; it has min(limit, number of positive cards) entries
\* and no card left out has a higher score than a returned one.
C16_TopCards ==
  pc = "warnings" =>
    /\ Len(Returned) <= TopLimit
    /\ Len(Returned) = IF Cardinality(Positive) < TopLimit
                       THEN Cardinality(Positive) ELSE TopLimit
    /\ \A k \in 1..Len(Returned) :
         /\ \E c \in Positive : per_card[c].card_name = Returned[k][1]
         /\ Returned[k][2] = ScoreFor(Origin(k))
    /\ \A k, l \in 1..Len(Returned) :
         k < l => /\ RLe(Returned[l][2], Returned[k][2])
                  /\ Origin(k) # Origin(l)
                  /\ Returned[l][2] = Returned[k][2] => Origin(k) < Origin(l)
    /\ \A c \in Positive :
         (\A k \in 1..Len(Returned) : Origin(k) # c) =>
           \A k \in 1..Len(Returned) : RLe(ScoreFor(c), Returned[k][2])

\* More positive cards than the limit, the best one last in insertion order
\* and a tie among the others.
C16_Witness ==
  /\ pc = "warnings"
  /\ Cardinality(Positive) > TopLimit
  /\ Len(Returned) = TopLimit
  /\ Origin(1) = Len(per_card)
  /\ \E c, d \in Positive : c < d /\ ScoreFor(c) = ScoreFor(d) /\ Origin(2) = c

FromConflictCheck(w) ==
  /\ warnings[w].kind = "conflict"
  /\ \E p \in 1..Len(packages.defs) :
       /\ warnings[w].subject = packages.defs[p].display_name
       /\ ConflictDue(p, warnings[w].tag)

\* Warning w comes from the orphan payoff/enabler check.
FromOrphanCheck(w) ==
  \E i \in 1..Len(OrphanPairs) :
    \/ /\ warnings[w].kind = "orphan_payoff"
       /\ warnings[w].tag = OrphanPairs[i][1]
       /\ PayoffOrphaned(OrphanPairs[i])
    \/ /\ warnings[w].kind = "orphan_enabler"
       /\ warnings[w].tag = OrphanPairs[i][2]
       /\ EnablerOrphaned(OrphanPairs[i])

\* A package of that name is primary.
PrimaryNamed(name) ==
  \E k \in 1..Len(primary_packages) :
    all_package_results[primary_packages[k]].name = name

\* Warning w comes from one of the two package-specific checks.
FromPackageCheck(w) ==
  \/ /\ warnings[w].kind = "expensive_spells"
     /\ PrimaryNamed("spellslinger")
     /\ RLt(<<10, 1>>, TotalOf("expensive_spell"))
  \/ /\ warnings[w].kind = "token_boardwipes"
     /\ PrimaryNamed("tokens")
     /\ RLt(<<3, 1>>, TotalOf("boardwipe"))

\* C18 as stated: every warning comes from the conflict-tag check or from the
\* orphan check.
C18_Original ==
  Warned =>
    \A w \in 1..Len(warnings) : FromConflictCheck(w) \/ FromOrphanCheck(w)

\* C18 (amended): every warning comes from the conflict-tag check, from the
\* orphan check, or from one of the two package-specific checks (spellslinger
\* primary with expensive_spell total > 10, tokens primary with boardwipe
\* total > 3).
C18_WarningSources ==
  Warned =>
    \A w \in 1..Len(warnings) :
      FromConflictCheck(w) \/ FromOrphanCheck(w) \/ FromPackageCheck(w)

\* A report holds the boardwipe warning of the tokens package next to a
\* conflict warning.
C18_Witness ==
  /\ pc = "done"
  /\ \E w \in 1..Len(warnings) : FromPackageCheck(w)
  /\ \E w \in 1..Len(warnings) : FromConflictCheck(w)

\* The patterns of group g that match the oracle text of deck card c.
Matching(c, g) ==
  {i \in 1..Len(SIGNAL_PATTERNS[g].strengths) :
     <<SIGNAL_PATTERNS[g].tag, i>> \in deck_cards[c].oracle_text.matches}

\* The signals card c got from the pattern group g.
GroupSignals(c, g) ==
  {i \in 1..Len(deck_signals[c].signals) :
     /\ deck_signals[c].signals[i].source = "oracle"
     /\ deck_signals[c].signals[i].tag = SIGNAL_PATTERNS[g].tag}

\* C19: for every card and every tag group with patterns, the card has one
\* oracle signal of that tag when some pattern of the group matches its text,
\* with the strength of the first matching pattern in catalog order, and
\* none when no pattern matches.
C19_FirstMatchWins ==
  pc = "done" =>
    \A c \in 1..Len(deck_cards) : \A g \in 1..Len(SIGNAL_PATTERNS) :
      Len(SIGNAL_PATTERNS[g].strengths) > 0 =>
        IF Matching(c, g) = {}
        THEN GroupSignals(c, g) = {}
        ELSE /\ Cardinality(GroupSignals(c, g)) = 1
             /\ \A i \in GroupSignals(c, g) :
                  \A first \in Matching(c, g) :
                    (\A other \in Matching(c, g) : first <= other) =>
                      deck_signals[c].signals[i].strength =
                        SIGNAL_PATTERNS[g].strengths[first]

\* A card matches two patterns of one tag with different strengths and
\* carries the strength of the earlier one.
C19_Witness ==
  /\ pc = "done"
  /\ \E c \in 1..Len(deck_cards) : \E g \in 1..Len(SIGNAL_PATTERNS) :
       \E first, later \in Matching(c, g) :
         /\ first < later
         /\ SIGNAL_PATTERNS[g].strengths[first] # SIGNAL_PATTERNS[g].strengths[later]
         /\ \E i \in GroupSignals(c, g) :
              deck_signals[c].signals[i].strength = SIGNAL_PATTERNS[g].strengths[first]

\* C20: every card whose type line contains Equipment has an equipment
\* signal, whatever else the type line contains.
C20_EquipmentSignal ==
  pc \notin {"build_signals", "raised"} =>
    \A c \in 1..Len(deck_cards) :
      "Equipment" \in deck_cards[c].type_line =>
        \E i \in 1..Len(deck_signals[c].signals) :
          deck_signals[c].signals[i].tag = "equipment"

\* The strengths, in order, of the type-line signals of card c with that tag.
TypeLineStrengths(c, tag) ==
  LET at == SelectSeq(deck_signals[c].signals,
                      LAMBDA s : s.source = "type_line" /\ s.tag = tag)
  IN  [i \in 1..Len(at) |-> at[i].strength]

\* C21: an Artifact that is not a Creature has one type-line artifact_count
\* of strength 1.0 and no artifact_creature; an Artifact Creature has one
\* artifact_creature of 1.0 and one artifact_count of 0.5; a card that is
\* not an Artifact has neither from its type line.
C21_ArtifactRule ==
  pc = "done" =>
    \A c \in 1..Len(deck_cards) :
      LET type_line == deck_cards[c].type_line
          count == TypeLineStrengths(c, "artifact_count")
          creature == TypeLineStrengths(c, "artifact_creature")
      IN  /\ ("Artifact" \in type_line /\ "Creature" \notin type_line) =>
               count = <<(<<1, 1>>)>> /\ creature = <<>>
          /\ ("Artifact" \in type_line /\ "Creature" \in type_line) =>
               count = <<(<<1, 2>>)>> /\ creature = <<(<<1, 1>>)>>
          /\ "Artifact" \notin type_line =>
               count = <<>> /\ creature = <<>>

\* A deck with an artifact creature and an artifact that is not a creature.
C21_Witness ==
  /\ pc = "done"
  /\ \E c, d \in 1..Len(deck_cards) :
       /\ {"Artifact", "Creature"} \subseteq deck_cards[c].type_line
       /\ TypeLineStrengths(c, "artifact_count") = <<(<<1, 2>>)>>
       /\ "Artifact" \in deck_cards[d].type_line
       /\ "Creature" \notin deck_cards[d].type_line
       /\ TypeLineStrengths(d, "artifact_count") = <<(<<1, 1>>)>>

\* The keyword signals of card c with that tag and strength.
KeywordHits(c, tag, strength) ==
  {i \in 1..Len(deck_signals[c].signals) :
     /\ deck_signals[c].signals[i].source = "keywords"
     /\ deck_signals[c].signals[i].tag = tag
     /\ deck_signals[c].signals[i].strength = strength}

\* The keywords of card c that read as one of the given words.
KeywordsAmong(c, words) ==
  {k \in deck_cards[c].keywords : Lower(k) \in words}

\* The oracle text of card c produced that tag.
OracleHas(c, tag) ==
  \E i \in 1..Len(deck_signals[c].signals) :
    /\ deck_signals[c].signals[i].source = "oracle"
    /\ deck_signals[c].signals[i].tag = tag

\* C22: each keyword flying gives a keyword signal evasion, double strike
\* gives double_strike 2.0, hexproof or shroud gives hexproof 1.5, whether or
\* not the oracle text gave the same tag, and there is no other keyword
\* signal; the signals of one tag stay separate and the total of the tag is
\* the sum of all of them, times the quantity.
C22_KeywordRules ==
  pc = "done" =>
    /\ \A c \in 1..Len(deck_cards) :
         /\ Cardinality(KeywordHits(c, "evasion", <<1, 1>>)) =
              Cardinality(KeywordsAmong(c, {"flying"}))
         /\ Cardinality(KeywordHits(c, "double_strike", <<2, 1>>)) =
              Cardinality(KeywordsAmong(c, {"double strike"}))
         /\ Cardinality(KeywordHits(c, "hexproof", <<3, 2>>)) =
              Cardinality(KeywordsAmong(c, {"hexproof", "shroud"}))
         /\ Cardinality({i \in 1..Len(deck_signals[c].signals) :
                           deck_signals[c].signals[i].source = "keywords"}) =
              Cardinality(KeywordsAmong(c, {"flying", "double strike",
                                            "hexproof", "shroud"}))
    /\ \A tag \in {"evasion", "double_strike", "hexproof"} :
         TotalOf(tag) = WeightedSum(Carriers(tag))

\* A card has evasion from its oracle text and from its flying keyword, and
\* the evasion total is the sum of both; another card has a keyword signal
\* for a tag its text does not give.
C22_Witness ==
  /\ pc = "done"
  /\ \E c \in 1..Len(deck_cards) :
       /\ OracleHas(c, "evasion")
       /\ KeywordHits(c, "evasion", <<1, 1>>) # {}
       /\ KeywordHits(c, "hexproof", <<3, 2>>) # {}
       /\ Quantity(deck_cards[c].name) = 2
       /\ TotalOf("evasion") = <<5, 1>>
  /\ \E c \in 1..Len(deck_cards) :
       /\ ~OracleHas(c, "hexproof") /\ ~OracleHas(c, "double_strike")
       /\ \/ KeywordHits(c, "double_strike", <<2, 1>>) # {}
          \/ "Shroud" \in deck_cards[c].keywords /\ KeywordHits(c, "hexproof", <<3, 2>>) # {}

\* The display names of the first n rules whose ratio is below 0.8, in the
\* order of the rules.
RECURSIVE SpecMissing(_, _)
SpecMissing(rules, n) ==
  IF n = 0 THEN <<>>
  ELSE SpecMissing(rules, n - 1) \o
       (IF RLt(SpecRatio(rules[n]), <<4, 5>>) THEN <<rules[n].display_name>>
                                               ELSE <<>>)

\* C23: missing holds the display names of exactly the components whose
\* coverage ratio is below 0.8 (a ratio of exactly 0.8 is not missing), in
\* the order of the package definition.
C23_Missing ==
  pc = "done" =>
    \A p \in 1..Len(packages.defs) :
      LET rules == packages.defs[p].components
      IN  all_package_results[p].missing = SpecMissing(rules, Len(rules))

\* A package with one component at exactly 0.8, which is not listed, and two
\* components below it, which are listed in the order of the definition.
C23_Witness ==
  /\ pc = "done"
  /\ \E p \in 1..Len(packages.defs) :
       LET rules == packages.defs[p].components
           res == all_package_results[p]
       IN  /\ Len(rules) = 3
           /\ res.components[1].coverage_ratio = <<4, 5>>
           /\ RLt(res.components[2].coverage_ratio, <<4, 5>>)
           /\ RLt(res.components[3].coverage_ratio, <<4, 5>>)
           /\ res.missing = <<rules[2].display_name, rules[3].display_name>>

\* C24: the count reported for a component is the sum of the totals of its
\* tags, and its coverage_ratio is min(1, count / min_required) taken from
\* that reported count (1 when min_required is not positive).
C24_ReportedCount ==
  pc = "done" =>
    \A p \in 1..Len(packages.defs) :
      \A c \in 1..Len(packages.defs[p].components) :
        LET rule == packages.defs[p].components[c]
            cov == all_package_results[p].components[c]
        IN  /\ RInt(cov.count) = SpecCount(rule.tags, Len(rule.tags))
            /\ rule.min_required > 0 =>
                 LET raw == RDiv(RInt(cov.count), RInt(rule.min_required))
                 IN  cov.coverage_ratio =
                       (IF RLe(<<1, 1>>, raw) THEN <<1, 1>> ELSE raw)

\* Card lists in any order: every reordering of a list of distinct pool cards
\* whose extraction succeeds.
ShuffledDecks ==
  UNION {{[k \in 1..Len(d) |-> d[f[k]]] : f \in Orderings(1..Len(d))} :
           d \in {e \in Decks : \A i \in 1..Len(e) : ~Raises(e[i])}}

\* Quantity maps for the reordered lists: any subset of the names, each with
\* quantity 1 or MaxQty.
ShuffledQuantities(cards) ==
  UNION {[S -> {1, MaxQty}] : S \in SUBSET CardNames(cards)}

ShuffledInit ==
  /\ deck_cards \in ShuffledDecks
  /\ counts \in ShuffledQuantities(deck_cards)
  /\ packages \in {[is_none |-> TRUE, defs |-> <<>>],
                   [is_none |-> FALSE, defs |-> TestCatalog]}
  /\ pc = "build_signals"
  /\ deck_signals = <<>>
  /\ deck_tag_totals = <<>>
  /\ all_package_results = <<>>
  /\ primary_packages = <<>>
  /\ per_card = <<>>
  /\ warnings = <<>>
  /\ overall_score = <<0, 1>>

ShuffledSpec ==
  ShuffledInit /\ [][Next]_vars

\* The cards of the evaluated list, in pool order.
PoolOrder ==
  CHOOSE d \in Decks : CardNames(d) = CardNames(deck_cards)

\* The results of scoring the first n packages on the given totals.
RECURSIVE Rescored(_, _, _)
Rescored(defs, totals, n) ==
  IF n = 0 THEN <<>>
  ELSE Append(Rescored(defs, totals, n - 1), score_package(defs[n], totals))

StageAfter(stage) ==
  CASE stage = "build_signals" -> "aggregate"
    [] stage = "aggregate" -> "score"
    [] stage = "score" -> "pick_primary"
    [] stage = "pick_primary" -> "per_card"
    [] stage = "per_card" -> "top_cards"
    [] stage = "top_cards" -> "warnings"
    [] stage = "warnings" -> "overall"
    [] stage = "overall" -> "done"
    [] OTHER -> "none"

\* C26: for every card list, quantity map and catalog, every step of
\* evaluate_synergy leads from a stage to the stage that follows it (signal
\* index, aggregation, scoring with one result per catalog package, primary
\* selection, per-card attribution, top-card ranking, warnings, overall
\* score), the last one to the returned report: the run ends, with a report.
C26_Termination ==
  [][/\ pc' = StageAfter(pc)
     /\ pc = "score" => Len(all_package_results') = Len(packages.defs)]_vars

\* The totals of the tags of the package's own components, nothing else.
OwnTotals(pkg) ==
  [t \in DOMAIN deck_tag_totals \cap RelevantTags(pkg) |-> deck_tag_totals[t]]

\* The tags with a positive total that no component of the package lists.
ForeignTags(pkg) ==
  {t \in DOMAIN deck_tag_totals \ RelevantTags(pkg) : RLt(Zero, deck_tag_totals[t])}

\* The tags some component of some catalog package lists.
CatalogTags ==
  UNION {RelevantTags(packages.defs[p]) : p \in 1..Len(packages.defs)}

\* C27: the score, the coverage ratios and the missing list of a package are
\* those it gets from the totals of its own component tags alone, whatever
\* the totals of all other tags (unknown tags and its own conflict tags
\* included); a tag that two packages list counts in full for each of them.
C27_OwnTagsOnly ==
  pc = "done" =>
    \A p \in 1..Len(packages.defs) :
      LET res == all_package_results[p]
          own == score_package(packages.defs[p], OwnTotals(packages.defs[p]))
      IN  /\ res.score = own.score
          /\ res.missing = own.missing
          /\ \A c \in 1..Len(res.components) :
               /\ res.components[c].coverage_ratio = own.components[c].coverage_ratio
               /\ res.components[c].coverage_ratio =
                    SpecRatio(packages.defs[p].components[c])

\* A package with a positive score whose own conflict tag and a tag unknown
\* to the catalog have positive totals, and which shares a counted tag with
\* another package.
C27_Witness ==
  /\ pc = "done"
  /\ \E p, q \in 1..Len(packages.defs) :
       LET pkg == packages.defs[p]
       IN  /\ p # q
           /\ RLt(Zero, all_package_results[p].score)
           /\ ForeignTags(pkg) \cap pkg.conflict_tags # {}
           /\ ForeignTags(pkg) \ CatalogTags # {}
           /\ \E t \in RelevantTags(pkg) \cap RelevantTags(packages.defs[q]) :
                RLt(Zero, TotalOf(t))

\* C28: the overall_score of a report is 0.0 when no package is primary and
\* at least 30 otherwise, never strictly between 0 and 30; it is not above
\* the score of the first primary package and not below that of the second.
C28_OverallRange ==
  pc = "done" =>
    /\ overall_score = Zero \/ RLe(<<30, 1>>, overall_score)
    /\ Len(primary_packages) = 0 <=> overall_score = Zero
    /\ Len(primary_packages) >= 1 =>
         RLe(overall_score, all_package_results[primary_packages[1]].score)
    /\ Len(primary_packages) >= 2 =>
         RLe(all_package_results[primary_packages[2]].score, overall_score)

\* A report with two primary packages of different scores, the overall score
\* strictly between them, and a package that scores between 0 and 30.
C28_Witness ==
  /\ pc = "done"
  /\ Len(primary_packages) >= 2
  /\ RLt(overall_score, all_package_results[primary_packages[1]].score)
  /\ RLt(all_package_results[primary_packages[2]].score, overall_score)
  /\ \E p \in 1..Len(all_package_results) :
       /\ RLt(Zero, all_package_results[p].score)
       /\ RLt(all_package_results[p].score, <<30, 1>>)

\* The per-card score of the card of that name for the package of that name.
PackageScoreOf(card_name, pkg_name) ==
  LET c == CHOOSE c \in 1..Len(per_card) : per_card[c].card_name = card_name
  IN  IF pkg_name \in DOMAIN per_card[c].package_scores
      THEN per_card[c].package_scores[pkg_name] ELSE Zero

\* C29: a report holds one result per catalog package, in catalog order; the
\* primary packages are some of those results; a package that is not primary
\* has no top cards; a primary package has at most 10, each a card of the
\* deck with its positive per-card score for the package, in non-increasing
\* order.
C29_ReportShape ==
  pc = "done" =>
    /\ Len(all_package_results) = Len(packages.defs)
    /\ \A p \in 1..Len(packages.defs) :
         all_package_results[p].name = packages.defs[p].name
    /\ \A k \in 1..Len(primary_packages) :
         /\ primary_packages[k] \in 1..Len(all_package_results)
         /\ \A l \in 1..Len(primary_packages) :
              primary_packages[k] = primary_packages[l] => k = l
    /\ \A p \in 1..Len(all_package_results) :
         LET top == all_package_results[p].top_cards
         IN  IF IsPrimary(p)
             THEN /\ Len(top) <= 10
                  /\ \A k \in 1..Len(top) :
                       /\ \E c \in 1..Len(per_card) : per_card[c].card_name = top[k][1]
                       /\ RLt(Zero, top[k][2])
                       /\ top[k][2] = PackageScoreOf(top[k][1], all_package_results[p].name)
                       /\ k > 1 => RLe(top[k][2], top[k - 1][2])
             ELSE top = <<>>

\* A primary package with two top cards of different contributions, next to
\* a package that is not primary although a card of the deck scores for it.
C29_Witness ==
  /\ pc = "done"
  /\ \E p \in 1..Len(all_package_results) :
       /\ IsPrimary(p)
       /\ Len(all_package_results[p].top_cards) >= 2
       /\ RLt(all_package_results[p].top_cards[2][2],
              all_package_results[p].top_cards[1][2])
  /\ \E q \in 1..Len(all_package_results) :
       /\ ~IsPrimary(q)
       /\ all_package_results[q].top_cards = <<>>
       /\ \E c \in 1..Len(per_card) :
            all_package_results[q].name \in DOMAIN per_card[c].package_scores

\* Cards that probe the extractor: every combination of the structural words
\* of the type line, a cost in each cost band, every keyword with a rule, and
\* a text in which every phrase occurs and every pattern matches.
ProbeCards ==
  LET words == {"Artifact", "Creature", "Equipment", "Enchantment", "Aura",
                "Instant", "Sorcery"}
      text == [contains |-> {"enchanted creature gets", "gets +",
                             "enters the battlefield", "return",
                             "from your graveyard", "unearth", "persist"},
               matches |-> UNION {{<<SIGNAL_PATTERNS[g].tag, i>> :
                                     i \in 1..Len(SIGNAL_PATTERNS[g].strengths)} :
                                   g \in 1..Len(SIGNAL_PATTERNS)}]
  IN  {[name |-> "probe", type_line |-> T, cmc |-> m,
        keywords |-> {"Flying", "Double strike", "Hexproof", "Shroud"},
        oracle_text |-> text] : T \in SUBSET words, m \in {1, 2, 6}}

\* The tags the extractor emits for some card.
EmittableTags ==
  UNION {LET signals == extract_synergy_signals(
                          card, <<"Flying", "Double strike", "Hexproof", "Shroud">>)
         IN  {signals[i].tag : i \in 1..Len(signals)} : card \in ProbeCards}

\* C30: every tag the built-in catalog names, as a component tag or as a
\* conflict tag, is emitted by the extractor for some card, so that every
\* built-in package with conflict tags has a conflict tag some deck carries
\* (stated of the catalog of a run that uses the built-in one).
C30_CatalogTagsEmittable ==
  packages.defs = get_default_packages =>
    \A p \in 1..Len(packages.defs) :
      LET pkg == packages.defs[p]
      IN  /\ RelevantTags(pkg) \cup pkg.conflict_tags \subseteq EmittableTags
          /\ pkg.conflict_tags # {} => pkg.conflict_tags \cap EmittableTags # {}

====
